---- MODULE Spec2Model ----
(***************************************************************************)
(* A model of the Foliorank ranking pipeline (sdk/foliorank/ranking.py)    *)
(* with the simulator (simulation.py) and the portfolio checks (mcp.py,    *)
(* schemas.py) it runs each candidate through, of the planning agent       *)
(* (agent.py) and of the validate and rank commands (cli.py).              *)
(*                                                                         *)
(* Encoding of Python values:                                              *)
(*   - a str used as an identity token is the tuple of its code points,    *)
(*     so that Python's lexicographic comparison can be computed;          *)
(*   - expected_return and volatility are held in tenths of a percent      *)
(*     (the simulator rounds both to one decimal place);                   *)
(*   - a normalized value is an exact fraction [n, d];                     *)
(*   - total_score is held in hundredths (it is rounded to two decimals);  *)
(*   - a missing key / None is a flag of the record (present,              *)
(*     has_allocation) or the empty tuple;                                 *)
(*   - a weight is an integer percentage; a float weight, which only the   *)
(*     validator is given, carries its decimals in ten-thousandths.        *)
(* The free-text "notes" of a ranked item is not modelled.                 *)
(***************************************************************************)
EXTENDS Integers, Sequences, FiniteSets, TLC

\* Bounds of the explored inputs.
MaxItems == 3
MaxTopK == 2

Min(a, b) == IF a < b THEN a ELSE b
Max(a, b) == IF a > b THEN a ELSE b
Abs(a) == IF a < 0 THEN 0 - a ELSE a

RECURSIVE Gcd(_, _)
Gcd(a, b) == IF b = 0 THEN a ELSE Gcd(b, a % b)

-----------------------------------------------------------------------------
\* Strings as tuples of code points; Python's str "<" is lexicographic.

RECURSIVE StrLess(_, _)
StrLess(s, t) ==
    IF s = <<>> THEN t # <<>>
    ELSE IF t = <<>> THEN FALSE
    ELSE IF s[1] # t[1] THEN s[1] < t[1]
    ELSE StrLess(Tail(s), Tail(t))

\* "rank_" as code points (ranking.py:73, f"rank_{portfolio_id}").
RankPrefix == <<114, 97, 110, 107, 95>>

AuditHash(portfolio_id) == RankPrefix \o portfolio_id

-----------------------------------------------------------------------------
\* Exact fractions.

Frac(n, d) ==
    LET g == Gcd(Abs(n), Abs(d))
    IN  IF g = 0 THEN [n |-> n, d |-> d] ELSE [n |-> n \div g, d |-> d \div g]

FSub(x, y) == Frac(x.n * y.d - y.n * x.d, x.d * y.d)
FAdd(x, y) == Frac(x.n * y.d + y.n * x.d, x.d * y.d)
FDiv(x, y) == Frac(x.n * y.d, x.d * y.n)
FLess(x, y) == x.n * y.d < y.n * x.d
FEq(x, y) == x.n * y.d = y.n * x.d
Half == [n |-> 1, d |-> 2]
One == [n |-> 1, d |-> 1]

-----------------------------------------------------------------------------
\* Portfolio specifications.

Equities == "Large-cap equities"
Bonds == "Government bonds"
Cash == "Cash equivalents"

Entry(asset, weight) == [asset |-> asset, weight |-> weight]

Portfolio(name, allocation) ==
    [present |-> TRUE, portfolio_name |-> name, has_allocation |-> TRUE,
     allocation |-> allocation, rationale |-> "rationale"]

\* The portfolios of tests/test_cli.py and agent.py.
Growth == Portfolio("Growth", <<Entry(Equities, 70), Entry(Bonds, 25), Entry(Cash, 5)>>)
Stability == Portfolio("Stability", <<Entry(Bonds, 70), Entry(Cash, 30)>>)
Balanced == Portfolio("Balanced", <<Entry(Equities, 50), Entry(Bonds, 40), Entry(Cash, 10)>>)
\* Weights summing to 80 (tests/test_cli.py, test_cli_validation_failure).
Sum80 == Portfolio("Sum80", <<Entry(Equities, 50), Entry(Bonds, 30)>>)
\* A truthy dictionary without the "allocation" key.
NoAllocation ==
    [present |-> TRUE, portfolio_name |-> "NoAllocation", has_allocation |-> FALSE,
     allocation |-> <<>>, rationale |-> "rationale"]
\* A missing, None or empty "portfolio" value.
NoPortfolio ==
    [present |-> FALSE, portfolio_name |-> "", has_allocation |-> FALSE,
     allocation |-> <<>>, rationale |-> ""]

-----------------------------------------------------------------------------
\* SimulationEngine.run (simulation.py).

\* The class keywords that occur as substrings of asset.lower().
Keywords(asset) ==
    CASE asset = Equities -> {"equities"}
      [] asset = Bonds -> {"bonds"}
      [] asset = Cash -> {"cash"}
      [] OTHER -> {}

\* Per-class rates in tenths of a percent: returns 7.0, 3.0 and 1.0,
\* volatilities 15.0, 5.0 and 0.5.
equities_return == 70
bonds_return == 30
cash_return == 10
equities_vol == 150
bonds_vol == 50
cash_vol == 5

\* The loop of run: each matching entry assigns its class's weight.
RECURSIVE ClassWeights(_, _)
ClassWeights(allocation, w) ==
    IF allocation = <<>> THEN w
    ELSE LET item == Head(allocation)
             asset == item.asset
             weight == item.weight
         IN  ClassWeights(Tail(allocation),
                 IF "equities" \in Keywords(asset) THEN [w EXCEPT !.equities = weight]
                 ELSE IF "bonds" \in Keywords(asset) THEN [w EXCEPT !.bonds = weight]
                 ELSE IF "cash" \in Keywords(asset) THEN [w EXCEPT !.cash = weight]
                 ELSE w)

\* The k for which the binary double nearest to (10k+5)/100 lies above the
\* decimal midpoint, so that Python's round(x, 1) rounds it up to (k+1)/10.
HalfRoundsUp ==
    {0, 4, 5, 6, 7, 10, 13, 15, 17, 18, 23, 24, 27, 28, 29, 33, 34, 37, 38, 39,
     41, 44, 46, 47, 49, 51, 54, 56, 57, 59, 61, 64, 66, 67, 69, 71, 74, 76, 77,
     79, 80, 81, 85, 86, 87, 90, 91, 95, 96, 97, 100, 101, 105, 106, 107, 110,
     111, 115, 116, 117, 120, 121, 125, 126, 127, 130, 131, 135, 136, 137, 140,
     141, 145, 146, 147, 150, 151, 155, 156, 157, 160, 163, 165, 167, 168, 170,
     173, 175, 177, 178, 180, 183, 185, 187, 188, 190, 193, 195, 197, 198, 200,
     203, 205, 207, 208, 210}

\* Round1 that always rounds up.
Round1Up(num, den) == IF num % den = 0 THEN num \div den ELSE (num \div den) + 1

\* Round1 that cuts the value off after the first decimal.
Round1Down(num, den) == num \div den

\* round(num / den, 1) in tenths, for num / den the value in tenths.
Round1(num, den) ==
    LET q == num \div den
        r == num % den
    IN  IF 2 * r < den THEN q
        ELSE IF 2 * r > den THEN q + 1
        ELSE IF q \in HalfRoundsUp THEN q + 1 ELSE q

\* run with the return rates of equities and bonds exchanged.
run_with_rates_exchanged(portfolio) ==
    IF ~portfolio.has_allocation
    THEN [raised |-> "KeyError", expected_return |-> 0, volatility |-> 0,
          time_horizon |-> "", simulation_version |-> ""]
    ELSE LET w == ClassWeights(portfolio.allocation,
                      [equities |-> 0, bonds |-> 0, cash |-> 0])
         IN  [raised |-> "none",
              expected_return |->
                  Round1(w.equities * bonds_return + w.bonds * equities_return
                         + w.cash * cash_return, 100),
              volatility |->
                  Round1(w.equities * bonds_vol + w.bonds * equities_vol
                         + w.cash * cash_vol, 100),
              time_horizon |-> "long_term",
              simulation_version |-> "v0.1"]

run(portfolio) ==
    IF ~portfolio.has_allocation
    THEN [raised |-> "KeyError", expected_return |-> 0, volatility |-> 0,
          time_horizon |-> "", simulation_version |-> ""]
    ELSE LET w == ClassWeights(portfolio.allocation,
                      [equities |-> 0, bonds |-> 0, cash |-> 0])
         IN  [raised |-> "none",
              expected_return |->
                  Round1(w.equities * equities_return + w.bonds * bonds_return
                         + w.cash * cash_return, 100),
              volatility |->
                  Round1(w.equities * equities_vol + w.bonds * bonds_vol
                         + w.cash * cash_vol, 100),
              time_horizon |-> "long_term",
              simulation_version |-> "v0.1"]

\* ControlledAgent.simulate: hands the portfolio to the Simulator and returns
\* its metrics; it validates nothing.
simulate(portfolio_spec) == run(portfolio_spec)

-----------------------------------------------------------------------------
\* The portfolio checks: MCPEnforcer.post_check (mcp.py) and
\* PortfolioValidator.validate (schemas.py).

allowed_asset_classes == {Equities, Bonds, Cash}

\* The real-symbol fragments that occur as substrings of asset.lower().
Symbols(asset) ==
    CASE asset = "AAPL" -> {"aapl"}
      [] OTHER -> {}

RECURSIVE SumWeights(_)
SumWeights(allocation) ==
    IF allocation = <<>> THEN 0
    ELSE Head(allocation).weight + SumWeights(Tail(allocation))

\* A weight read from JSON is an int, or a float: a float entry carries the
\* digits after the decimal point, in ten-thousandths, as its "fraction".
FloatEntry(asset, weight, fraction) ==
    [asset |-> asset, weight |-> weight, fraction |-> fraction]

IsFloat(item) == "fraction" \in DOMAIN item

\* A weight in ten-thousandths.
TenThousandths(item) ==
    item.weight * 10000 + (IF IsFloat(item) THEN item.fraction ELSE 0)

RECURSIVE TotalWeight(_)
TotalWeight(allocation) ==
    IF allocation = <<>> THEN 0
    ELSE TenThousandths(Head(allocation)) + TotalWeight(Tail(allocation))

post_check(output) ==
    IF ~output.has_allocation THEN "MCPViolation"
    ELSE IF \E i \in 1..Len(output.allocation) :
                LET item == output.allocation[i]
                IN  \/ Symbols(item.asset) # {}
                    \/ item.asset \notin allowed_asset_classes
                    \/ IsFloat(item)
                    \/ item.weight <= 0
         THEN "MCPViolation"
    ELSE IF SumWeights(output.allocation) # 100 THEN "MCPViolation"
    ELSE "ok"

\* validate without the check of the total weight.
validate_without_total(portfolio) ==
    IF ~portfolio.has_allocation THEN "ValueError"
    ELSE IF portfolio.portfolio_name = "" THEN "ValueError"
    ELSE IF portfolio.allocation = <<>> THEN "ValueError"
    ELSE IF \E i \in 1..Len(portfolio.allocation) :
                LET item == portfolio.allocation[i]
                IN  \/ item.asset = ""
                    \/ TenThousandths(item) < 0
                    \/ TenThousandths(item) > 1000000
         THEN "ValueError"
    ELSE IF portfolio.rationale = "" THEN "ValueError"
    ELSE "ok"

\* schemas.py:120-173. On weights with at most four decimals the doubles of
\* abs(total_weight - 100) > 0.001 also reject a total that is exactly 0.001
\* away from 100: the computed difference lies just above the double 0.001.
validate(portfolio) ==
    IF ~portfolio.has_allocation THEN "ValueError"
    ELSE IF portfolio.portfolio_name = "" THEN "ValueError"
    ELSE IF portfolio.allocation = <<>> THEN "ValueError"
    ELSE IF \E i \in 1..Len(portfolio.allocation) :
                LET item == portfolio.allocation[i]
                IN  \/ item.asset = ""
                    \/ TenThousandths(item) < 0
                    \/ TenThousandths(item) > 1000000
         THEN "ValueError"
    ELSE IF Abs(TotalWeight(portfolio.allocation) - 1000000) >= 10 THEN "ValueError"
    ELSE IF portfolio.rationale = "" THEN "ValueError"
    ELSE "ok"

\* export.import_bundle: the structural and safety rules a candidate has to
\* pass (required fields, weights summing to 100, allowed asset classes, no
\* real-world symbols); a violation is an ExportViolation.
import_bundle(bundle) ==
    IF post_check(bundle.portfolio_spec) = "ok" /\ validate(bundle.portfolio_spec) = "ok"
    THEN "ok"
    ELSE "ExportViolation"

-----------------------------------------------------------------------------
\* ranking.py: bundle extraction.

Item(id, portfolio) == [isdict |-> TRUE, id |-> id, portfolio |-> portfolio]
NonDictItem == [isdict |-> FALSE, id |-> <<>>, portfolio |-> NoPortfolio]

\* DictSet that appends every item, a known key included.
DictSetAppend(d, key, value) == Append(d, [id |-> key, spec |-> value])

\* DictSet that keeps the value a known key already has.
DictSetKeepingFirst(d, key, value) ==
    IF \E i \in 1..Len(d) : d[i].id = key
    THEN d
    ELSE Append(d, [id |-> key, spec |-> value])

\* portfolios[portfolio_id] = portfolio_spec on an insertion-ordered dict,
\* held as a sequence of [id, spec]: a known key keeps its position and takes
\* the new value, a new key is appended.
DictSet(d, key, value) ==
    IF \E i \in 1..Len(d) : d[i].id = key
    THEN [i \in 1..Len(d) |-> IF d[i].id = key THEN [id |-> key, spec |-> value] ELSE d[i]]
    ELSE Append(d, [id |-> key, spec |-> value])

RECURSIVE ExtractItems(_, _)
ExtractItems(items, portfolios) ==
    IF items = <<>> THEN [raised |-> "none", portfolios |-> portfolios]
    ELSE LET item == Head(items)
         IN  IF ~item.isdict
             THEN [raised |-> "RankingViolation", portfolios |-> <<>>]
             ELSE IF item.id = <<>> \/ ~item.portfolio.present
             THEN [raised |-> "RankingViolation", portfolios |-> <<>>]
             ELSE ExtractItems(Tail(items), DictSet(portfolios, item.id, item.portfolio))

validate_and_extract_bundle(bundle_input) ==
    IF bundle_input.kind # "dict"
    THEN [raised |-> "RankingViolation", portfolios |-> <<>>]
    ELSE IF bundle_input.version # "v0.1"
    THEN [raised |-> "RankingViolation", portfolios |-> <<>>]
    ELSE IF bundle_input.items_kind # "list" \/ Len(bundle_input.items) = 0
    THEN [raised |-> "RankingViolation", portfolios |-> <<>>]
    ELSE ExtractItems(bundle_input.items, <<>>)

-----------------------------------------------------------------------------
\* ranking.py: simulation of each portfolio and the accepted/rejected split.

\* The loop of rank_bundles over portfolios.items(): the first simulation
\* that raises ends the loop and the call.
RECURSIVE SimulateAll(_, _)
SimulateAll(portfolios, bundles) ==
    IF portfolios = <<>> THEN [raised |-> "none", bundles |-> bundles]
    ELSE LET portfolio_id == Head(portfolios).id
             portfolio_spec == Head(portfolios).spec
             simulation_result == simulate(portfolio_spec)
         IN  IF simulation_result.raised # "none"
             THEN [raised |-> simulation_result.raised, bundles |-> bundles]
             ELSE SimulateAll(Tail(portfolios),
                      Append(bundles,
                             [portfolio_spec |-> portfolio_spec,
                              simulation_result |-> simulation_result,
                              audit_hash |-> AuditHash(portfolio_id),
                              schema_version |-> "export_bundle_v1",
                              mcp_version |-> "v0.1"]))

\* RejectionRecord with the 1-based position as bundle_index.
RejectionRecordOneBased(i, code) == [bundle_index |-> i + 1, reason_code |-> code]

RejectionRecord(i, code) == [bundle_index |-> i, reason_code |-> code]

RECURSIVE ValidateFrom(_, _, _, _)
ValidateFrom(bundles, i, valid_bundles, rejected_bundles) ==
    IF i >= Len(bundles)
    THEN [valid_bundles |-> valid_bundles, rejected_bundles |-> rejected_bundles]
    ELSE LET bundle == bundles[i + 1]
             outcome == import_bundle(bundle)
         IN  IF outcome = "ok"
             THEN ValidateFrom(bundles, i + 1, Append(valid_bundles, bundle), rejected_bundles)
             ELSE IF outcome = "ExportViolation"
             THEN ValidateFrom(bundles, i + 1, valid_bundles,
                      Append(rejected_bundles, RejectionRecord(i, "validation_failed")))
             ELSE ValidateFrom(bundles, i + 1, valid_bundles,
                      Append(rejected_bundles, RejectionRecord(i, "unexpected_error")))

\* validate_bundles that keeps a rejected bundle among the valid ones.
RECURSIVE ValidateKeepingRejected(_, _, _, _)
ValidateKeepingRejected(bundles, i, valid_bundles, rejected_bundles) ==
    IF i >= Len(bundles)
    THEN [valid_bundles |-> valid_bundles, rejected_bundles |-> rejected_bundles]
    ELSE LET bundle == bundles[i + 1]
         IN  IF import_bundle(bundle) = "ok"
             THEN ValidateKeepingRejected(bundles, i + 1, Append(valid_bundles, bundle),
                      rejected_bundles)
             ELSE ValidateKeepingRejected(bundles, i + 1, Append(valid_bundles, bundle),
                      Append(rejected_bundles, RejectionRecord(i, "validation_failed")))

validate_bundles_keeping_rejected(bundles) ==
    ValidateKeepingRejected(bundles, 0, <<>>, <<>>)

\* validate_bundles with the two except branches swapped.
RECURSIVE ValidateSwapped(_, _, _, _)
ValidateSwapped(bundles, i, valid_bundles, rejected_bundles) ==
    IF i >= Len(bundles)
    THEN [valid_bundles |-> valid_bundles, rejected_bundles |-> rejected_bundles]
    ELSE LET bundle == bundles[i + 1]
             outcome == import_bundle(bundle)
         IN  IF outcome = "ok"
             THEN ValidateSwapped(bundles, i + 1, Append(valid_bundles, bundle),
                      rejected_bundles)
             ELSE IF outcome = "ExportViolation"
             THEN ValidateSwapped(bundles, i + 1, valid_bundles,
                      Append(rejected_bundles, RejectionRecord(i, "unexpected_error")))
             ELSE ValidateSwapped(bundles, i + 1, valid_bundles,
                      Append(rejected_bundles, RejectionRecord(i, "validation_failed")))

validate_bundles_swapped(bundles) == ValidateSwapped(bundles, 0, <<>>, <<>>)

validate_bundles(bundles) == ValidateFrom(bundles, 0, <<>>, <<>>)

-----------------------------------------------------------------------------
\* ranking.py: the v1_balanced scoring profile.

\* weights with 0.5 for the return.
weights_return_half ==
    [return_score |-> 50, risk_score |-> 30, drawdown_score |-> 20,
     stability_score |-> 5, completeness_score |-> 5]

\* weights with the weights of return and risk exchanged.
weights_risk_first ==
    [return_score |-> 30, risk_score |-> 40, drawdown_score |-> 20,
     stability_score |-> 5, completeness_score |-> 5]

\* Scoring weights in hundredths (0.4, 0.3, 0.2, 0.05, 0.05).
weights ==
    [return_score |-> 40, risk_score |-> 30, drawdown_score |-> 20,
     stability_score |-> 5, completeness_score |-> 5]

MetricNames ==
    <<"return_score", "risk_score", "drawdown_score", "stability_score",
      "completeness_score">>

\* The raw metric lists collected from the bundles (percent values as
\* fractions; stability is 1 / (1 + volatility)).
RawReturn(bundle) == Frac(bundle.simulation_result.expected_return, 10)
RawVolatility(bundle) == Frac(bundle.simulation_result.volatility, 10)
RawStability(bundle) == FDiv(One, FAdd(One, RawVolatility(bundle)))

RECURSIVE FMin(_)
FMin(values) ==
    IF Len(values) = 1 THEN values[1]
    ELSE LET m == FMin(Tail(values))
         IN  IF FLess(m, values[1]) THEN m ELSE values[1]

RECURSIVE FMax(_)
FMax(values) ==
    IF Len(values) = 1 THEN values[1]
    ELSE LET m == FMax(Tail(values))
         IN  IF FLess(values[1], m) THEN m ELSE values[1]

RECURSIVE FSum(_)
FSum(values) == IF values = <<>> THEN Frac(0, 1) ELSE FAdd(values[1], FSum(Tail(values)))

\* NormRange that takes the sum of the values for their maximum.
NormRangeWithSumAsMax(values) ==
    IF values = <<>> THEN [min |-> Frac(0, 1), max |-> One, status |-> "empty"]
    ELSE LET min_val == FMin(values)
             max_val == FSum(values)
         IN  [min |-> min_val, max |-> max_val,
              status |-> IF FEq(min_val, max_val) THEN "identical" ELSE "normal"]

\* norm_ranges[key]: (min, max, status) of one raw metric list.
NormRange(values) ==
    IF values = <<>> THEN [min |-> Frac(0, 1), max |-> One, status |-> "empty"]
    ELSE LET min_val == FMin(values)
             max_val == FMax(values)
         IN  [min |-> min_val, max |-> max_val,
              status |-> IF FEq(min_val, max_val) THEN "identical" ELSE "normal"]

\* Normalize that divides by the maximum.
NormalizeByMax(raw, range) ==
    IF range.status = "identical" THEN Half
    ELSE FDiv(raw, range.max)

\* Normalize that gives identical values the full mark.
NormalizeIdenticalAsOne(raw, range) ==
    IF range.status = "identical" THEN One
    ELSE FDiv(FSub(raw, range.min), FSub(range.max, range.min))

\* (raw - min) / (max - min), or 0.5 when all values are identical.
Normalize(raw, range) ==
    IF range.status = "identical" THEN Half
    ELSE FDiv(FSub(raw, range.min), FSub(range.max, range.min))

\* The simulation_result keys counted by the completeness score.
required_metrics == <<"expected_return", "volatility", "time_horizon", "simulation_version">>
SimResultKeys == {"expected_return", "volatility", "time_horizon", "simulation_version"}

Completeness ==
    Frac(Cardinality({i \in 1..Len(required_metrics) : required_metrics[i] \in SimResultKeys}),
         Len(required_metrics))

Scores(bundle, ranges) ==
    [return_score |->
         [raw |-> RawReturn(bundle),
          normalized |-> Normalize(RawReturn(bundle), ranges.returns)],
     risk_score |->
         [raw |-> RawVolatility(bundle),
          normalized |->
              IF ranges.volatilities.status = "identical" THEN Half
              ELSE FSub(One, FDiv(FSub(RawVolatility(bundle), ranges.volatilities.min),
                                  FSub(ranges.volatilities.max, ranges.volatilities.min)))],
     drawdown_score |-> [raw |-> Frac(0, 1), normalized |-> Half],
     stability_score |->
         [raw |-> RawStability(bundle),
          normalized |-> Normalize(RawStability(bundle), ranges.stability_scores)],
     completeness_score |-> [raw |-> Completeness, normalized |-> Completeness]]

\* round(100 * sum of weight * normalized, 2) in hundredths: the whole parts
\* of the five terms are added apart from their fractional parts, which keeps
\* the sum exact; a sum half way between two hundredths goes to the even one.
RECURSIVE WholeCents(_, _)
WholeCents(scores, k) ==
    IF k = 0 THEN 0
    ELSE LET name == MetricNames[k]
         IN  ((100 * weights[name] * scores[name].normalized.n)
                  \div scores[name].normalized.d)
             + WholeCents(scores, k - 1)

RECURSIVE PartCents(_, _)
PartCents(scores, k) ==
    IF k = 0 THEN Frac(0, 1)
    ELSE LET name == MetricNames[k]
         IN  FAdd(Frac((100 * weights[name] * scores[name].normalized.n)
                           % scores[name].normalized.d,
                       scores[name].normalized.d),
                  PartCents(scores, k - 1))

Round2(whole, part) ==
    LET q == whole + (part.n \div part.d)
        r == part.n % part.d
    IN  IF 2 * r < part.d THEN q
        ELSE IF 2 * r > part.d THEN q + 1
        ELSE IF q % 2 = 0 THEN q ELSE q + 1

TotalScore(scores) ==
    Round2(WholeCents(scores, Len(MetricNames)), PartCents(scores, Len(MetricNames)))

\* ScoreBreakdown with the normalized value as contribution.
ScoreBreakdownUnweighted(scores) ==
    [name \in DOMAIN scores |->
        [raw |-> scores[name].raw,
         normalized |-> scores[name].normalized,
         weight |-> weights[name],
         contribution |-> scores[name].normalized]]

ScoreBreakdown(scores) ==
    [name \in DOMAIN scores |->
        [raw |-> scores[name].raw,
         normalized |-> scores[name].normalized,
         weight |-> weights[name],
         contribution |->
             Frac(scores[name].normalized.n * weights[name],
                  scores[name].normalized.d * 100)]]

compute_v1_balanced_scores(bundles) ==
    LET N == Len(bundles)
        ranges ==
            [returns |-> NormRange([i \in 1..N |-> RawReturn(bundles[i])]),
             volatilities |-> NormRange([i \in 1..N |-> RawVolatility(bundles[i])]),
             stability_scores |-> NormRange([i \in 1..N |-> RawStability(bundles[i])])]
    IN  [i \in 1..N |->
            LET scores == Scores(bundles[i], ranges)
            IN  [audit_hash |-> bundles[i].audit_hash,
                 portfolio_name |-> bundles[i].portfolio_spec.portfolio_name,
                 total_score |-> TotalScore(scores),
                 score_breakdown |-> ScoreBreakdown(scores),
                 rank |-> 0]]

compute_scores(bundles, profile) == compute_v1_balanced_scores(bundles)

-----------------------------------------------------------------------------
\* ranking.py: sorting, top_k and rank positions.

\* KeyLess with the score compared ascending.
KeyLessAscendingScore(x, y) ==
    \/ x.total_score < y.total_score
    \/ /\ x.total_score = y.total_score
       /\ StrLess(x.audit_hash, y.audit_hash)

\* KeyLess without the audit_hash as last key.
KeyLessWithoutHash(x, y) ==
    \/ x.total_score > y.total_score
    \/ /\ x.total_score = y.total_score
       /\ FLess(y.score_breakdown.drawdown_score.normalized,
                x.score_breakdown.drawdown_score.normalized)

\* The sort key (-total_score, -drawdown normalized, audit_hash), compared
\* as Python compares tuples.
KeyLess(x, y) ==
    \/ x.total_score > y.total_score
    \/ /\ x.total_score = y.total_score
       /\ \/ FLess(y.score_breakdown.drawdown_score.normalized,
                   x.score_breakdown.drawdown_score.normalized)
          \/ /\ FEq(x.score_breakdown.drawdown_score.normalized,
                    y.score_breakdown.drawdown_score.normalized)
             /\ StrLess(x.audit_hash, y.audit_hash)

\* list.sort is stable: x goes before the first element its key is less than.
RECURSIVE InsertByKey(_, _)
InsertByKey(sorted, x) ==
    IF sorted = <<>> THEN <<x>>
    ELSE IF KeyLess(x, Head(sorted)) THEN <<x>> \o sorted
    ELSE <<Head(sorted)>> \o InsertByKey(Tail(sorted), x)

RECURSIVE SortByKey(_, _)
SortByKey(items, sorted) ==
    IF items = <<>> THEN sorted
    ELSE SortByKey(Tail(items), InsertByKey(sorted, Head(items)))

sort(scored_items) == SortByKey(scored_items, <<>>)

\* top_k is <<>> for None and <<k>> for the integer k.
NoTopK == <<>>

\* Slice taking the last k items instead of the first.
SliceLast(scored_items, k) ==
    IF k >= 0
    THEN SubSeq(scored_items, Len(scored_items) - Min(k, Len(scored_items)) + 1,
                Len(scored_items))
    ELSE SubSeq(scored_items, 1, Max(Len(scored_items) + k, 0))

\* scored_items[:top_k]
Slice(scored_items, k) ==
    IF k >= 0 THEN SubSeq(scored_items, 1, Min(k, Len(scored_items)))
    ELSE SubSeq(scored_items, 1, Max(Len(scored_items) + k, 0))

ApplyTopK(scored_items, top_k) ==
    IF top_k # NoTopK THEN Slice(scored_items, top_k[1]) ELSE scored_items

\* AssignRanks counting from 0.
AssignRanksFromZero(scored_items) ==
    [i \in 1..Len(scored_items) |-> [scored_items[i] EXCEPT !.rank = i - 1]]

\* for i, item in enumerate(scored_items, 1): item["rank"] = i
AssignRanks(scored_items) ==
    [i \in 1..Len(scored_items) |-> [scored_items[i] EXCEPT !.rank = i]]

MakeReport(scoring_profile, bundles, valid_bundles, scored_items, rejected_bundles) ==
    [schema_version |-> "ranking_report_v1",
     scoring_profile |-> scoring_profile,
     created_by |-> "foliorank-sdk",
     total_candidates |-> Len(bundles),
     valid_candidates |-> Len(valid_bundles),
     ranked_items |-> scored_items,
     rejected_candidates |-> rejected_bundles]

Raise(exception) == [raised |-> exception, report |-> <<>>]

\* rank_bundles as a function of its arguments: what it raises, or <<report>>.
rank_bundles(bundle_input, scoring_profile, top_k) ==
    IF bundle_input.kind = "none" THEN Raise("RankingViolation")
    ELSE IF scoring_profile # "v1_balanced" THEN Raise("RankingViolation")
    ELSE LET extracted == validate_and_extract_bundle(bundle_input)
         IN  IF extracted.raised # "none" THEN Raise(extracted.raised)
             ELSE IF extracted.portfolios = <<>> THEN Raise("RankingViolation")
             ELSE LET simulated == SimulateAll(extracted.portfolios, <<>>)
                  IN  IF simulated.raised # "none" THEN Raise(simulated.raised)
                      ELSE LET split == validate_bundles(simulated.bundles)
                           IN  IF split.valid_bundles = <<>> THEN Raise("RankingViolation")
                               ELSE [raised |-> "none",
                                     report |->
                                         <<MakeReport(scoring_profile, simulated.bundles,
                                               split.valid_bundles,
                                               AssignRanks(ApplyTopK(
                                                   sort(compute_scores(split.valid_bundles,
                                                                       scoring_profile)),
                                                   top_k)),
                                               split.rejected_bundles)>>]

-----------------------------------------------------------------------------
\* The inputs of a call.

IdA == <<97>>
IdAB == <<97, 98>>
IdB == <<98>>

Items ==
    {Item(IdA, Growth), Item(IdAB, Stability), Item(IdB, Stability),
     Item(IdB, Balanced), Item(IdA, Sum80), Item(IdAB, Sum80),
     Item(IdB, NoAllocation), Item(<<>>, Growth), Item(IdA, NoPortfolio),
     NonDictItem}

ItemSeqs == UNION {[1..n -> Items] : n \in 0..MaxItems}

BundleDict(version, items_kind, items) ==
    [kind |-> "dict", version |-> version, items_kind |-> items_kind, items |-> items]

\* None or the empty dictionary.
NoBundle == [kind |-> "none", version |-> "", items_kind |-> "missing", items |-> <<>>]
\* A truthy value that is no dictionary.
NonDictBundle == [kind |-> "nondict", version |-> "", items_kind |-> "missing", items |-> <<>>]

BundleInputs ==
    {NoBundle, NonDictBundle}
    \cup {BundleDict("v0.1", "list", items) : items \in ItemSeqs}
    \cup {BundleDict(version, "list", <<Item(IdA, Growth)>>) : version \in {"", "v0.2"}}
    \cup {BundleDict("v0.1", items_kind, <<>>) : items_kind \in {"missing", "notlist"}}

Profiles == {"v1_balanced", "v2_growth"}

TopKs == {NoTopK} \cup {<<k>> : k \in (0 - 1)..MaxTopK}

-----------------------------------------------------------------------------
\* One call of rank_bundles, statement by statement.

VARIABLES
    pc,                \* "idle", the statement the call is at, "returned" or "raised"
    bundle_input,      \* the arguments of the call
    scoring_profile,
    top_k,
    portfolios,        \* locals of rank_bundles
    bundles,
    valid_bundles,
    rejected_bundles,
    scored_items,
    report,            \* <<>> or <<the report returned>>
    raised,            \* "none" or the exception that left the call
    sim_calls,         \* the agent.simulate calls made by the call
    earlier,           \* <<>> or <<an ended call, as its caller saw it>>
    audit_trail,       \* a SimulationEngine's audit_trail
    run_result,        \* <<>> or <<what the engine's last run returned or raised>>
    plan_pc,           \* "idle", the statement a plan call is at, "returned" or "raised"
    description,       \* the argument of the plan call
    plan_spec,         \* <<>> or <<the portfolio_spec the call has built>>
    plan_returned,     \* <<>> or <<the portfolio the call returned>>
    plan_raised,       \* "none" or the exception that left the call
    audit_log,         \* the ControlledAgent's audit_log
    log_before,        \* the audit_log as it was when the call was made
    cli_pc,            \* "idle" or the command that has ended
    input_file,        \* what the command's input file holds
    exit_code,         \* <<>> or <<the exit code of the command>>
    bundle_prepared    \* <<>> or <<what _prepare_rank_bundle returned>>

vars ==
    <<pc, bundle_input, scoring_profile, top_k, portfolios, bundles, valid_bundles,
      rejected_bundles, scored_items, report, raised, sim_calls, earlier, audit_trail,
      run_result, plan_pc, description, plan_spec, plan_returned, plan_raised,
      audit_log, log_before, cli_pc, input_file, exit_code, bundle_prepared>>

locals == <<portfolios, bundles, valid_bundles, rejected_bundles, scored_items, sim_calls>>
arguments == <<bundle_input, scoring_profile, top_k>>
\* A SimulationEngine object, and what the caller of rank_bundles keeps.
engine == <<audit_trail, run_result>>
caller == <<earlier>>
\* A ControlledAgent object with the plan call made on it, and one run of
\* the command line.
agent ==
    <<plan_pc, description, plan_spec, plan_returned, plan_raised, audit_log, log_before>>
cli == <<cli_pc, input_file, exit_code, bundle_prepared>>

Init ==
    /\ pc = "idle"
    /\ bundle_input = NoBundle
    /\ scoring_profile = "v1_balanced"
    /\ top_k = NoTopK
    /\ portfolios = <<>>
    /\ bundles = <<>>
    /\ valid_bundles = <<>>
    /\ rejected_bundles = <<>>
    /\ scored_items = <<>>
    /\ report = <<>>
    /\ raised = "none"
    /\ sim_calls = 0
    /\ earlier = <<>>
    /\ audit_trail = <<>>
    /\ run_result = <<>>
    /\ plan_pc = "idle"
    /\ description = <<>>
    /\ plan_spec = <<>>
    /\ plan_returned = <<>>
    /\ plan_raised = "none"
    /\ audit_log = <<>>
    /\ log_before = <<>>
    /\ cli_pc = "idle"
    /\ input_file = [file |-> "none"]
    /\ exit_code = <<>>
    /\ bundle_prepared = <<>>

\* The caller's record of an ended call: its arguments, what it raised or
\* returned, and how many calls (at most MaxCallsSince) were made after it.
MaxCallsSince == 2

EndedCall(b, p, k, exception, result) ==
    [bundle_input |-> b, scoring_profile |-> p, top_k |-> k, raised |-> exception,
     report |-> result, calls_since |-> 0]

CountCall(kept) ==
    IF kept = <<>> THEN kept
    ELSE <<[kept[1] EXCEPT !.calls_since = Min(@ + 1, MaxCallsSince)]>>

Call(b, p, k) ==
    /\ pc = "idle"
    /\ pc' = "entry"
    /\ bundle_input' = b
    /\ scoring_profile' = p
    /\ top_k' = k
    /\ earlier' = CountCall(earlier)
    /\ UNCHANGED <<locals, report, raised>>
    /\ UNCHANGED <<engine, agent, cli>>

\* ranking.py:49-53
CheckArguments ==
    /\ pc = "entry"
    /\ IF bundle_input.kind = "none" \/ scoring_profile # "v1_balanced"
       THEN pc' = "raised" /\ raised' = "RankingViolation"
       ELSE pc' = "extract" /\ raised' = raised
    /\ UNCHANGED <<arguments, locals, report>>
    /\ UNCHANGED <<caller, engine, agent, cli>>

\* Extract that has every item before a malformed one simulated by the time
\* the malformed item is met.
ExtractSimulatingAsItGoes ==
    /\ pc = "extract"
    /\ LET extracted == validate_and_extract_bundle(bundle_input)
       IN  IF extracted.raised # "none"
           THEN /\ pc' = "raised" /\ raised' = extracted.raised /\ portfolios' = portfolios
                /\ sim_calls' = Max(Len(bundle_input.items) - 1, 0)
           ELSE IF extracted.portfolios = <<>>
           THEN /\ pc' = "raised" /\ raised' = "RankingViolation"
                /\ portfolios' = portfolios /\ sim_calls' = sim_calls
           ELSE /\ pc' = "simulate" /\ raised' = raised
                /\ portfolios' = extracted.portfolios /\ sim_calls' = sim_calls
    /\ UNCHANGED <<arguments, bundles, valid_bundles, rejected_bundles, scored_items,
                   report>>
    /\ UNCHANGED <<caller, engine, agent, cli>>

\* ranking.py:56-59
Extract ==
    /\ pc = "extract"
    /\ LET extracted == validate_and_extract_bundle(bundle_input)
       IN  IF extracted.raised # "none"
           THEN pc' = "raised" /\ raised' = extracted.raised /\ portfolios' = portfolios
           ELSE IF extracted.portfolios = <<>>
           THEN pc' = "raised" /\ raised' = "RankingViolation" /\ portfolios' = portfolios
           ELSE pc' = "simulate" /\ raised' = raised /\ portfolios' = extracted.portfolios
    /\ UNCHANGED <<arguments, bundles, valid_bundles, rejected_bundles, scored_items,
                   report, sim_calls>>
    /\ UNCHANGED <<caller, engine, agent, cli>>

\* ranking.py:61-77
Simulate ==
    /\ pc = "simulate"
    /\ LET simulated == SimulateAll(portfolios, <<>>)
       IN  /\ bundles' = simulated.bundles
           /\ IF simulated.raised # "none"
              THEN /\ pc' = "raised"
                   /\ raised' = simulated.raised
                   /\ sim_calls' = Len(simulated.bundles) + 1
              ELSE /\ pc' = "validate"
                   /\ raised' = raised
                   /\ sim_calls' = Len(simulated.bundles)
    /\ UNCHANGED <<arguments, portfolios, valid_bundles, rejected_bundles, scored_items,
                   report>>
    /\ UNCHANGED <<caller, engine, agent, cli>>

\* Validate without the check for an empty valid list.
ValidateWithoutCheck ==
    /\ pc = "validate"
    /\ LET split == validate_bundles(bundles)
       IN  /\ valid_bundles' = split.valid_bundles
           /\ rejected_bundles' = split.rejected_bundles
           /\ pc' = "score"
           /\ raised' = raised
    /\ UNCHANGED <<arguments, portfolios, bundles, scored_items, report, sim_calls>>
    /\ UNCHANGED <<caller, engine, agent, cli>>

\* ranking.py:79-83
Validate ==
    /\ pc = "validate"
    /\ LET split == validate_bundles(bundles)
       IN  /\ valid_bundles' = split.valid_bundles
           /\ rejected_bundles' = split.rejected_bundles
           /\ IF split.valid_bundles = <<>>
              THEN pc' = "raised" /\ raised' = "RankingViolation"
              ELSE pc' = "score" /\ raised' = raised
    /\ UNCHANGED <<arguments, portfolios, bundles, scored_items, report, sim_calls>>
    /\ UNCHANGED <<caller, engine, agent, cli>>

\* ranking.py:85-93
Score ==
    /\ pc = "score"
    /\ scored_items' = sort(compute_scores(valid_bundles, scoring_profile))
    /\ pc' = "rank"
    /\ UNCHANGED <<arguments, portfolios, bundles, valid_bundles, rejected_bundles,
                   report, raised, sim_calls>>
    /\ UNCHANGED <<caller, engine, agent, cli>>

\* ranking.py:95-114
Rank ==
    /\ pc = "rank"
    /\ scored_items' = AssignRanks(ApplyTopK(scored_items, top_k))
    /\ report' = <<MakeReport(scoring_profile, bundles, valid_bundles, scored_items',
                              rejected_bundles)>>
    /\ pc' = "returned"
    /\ UNCHANGED <<arguments, portfolios, bundles, valid_bundles, rejected_bundles,
                   raised, sim_calls>>
    /\ UNCHANGED <<caller, engine, agent, cli>>

\* Done that leaves the exception of the call behind for the next call.
DoneKeepingRaised ==
    /\ pc \in {"returned", "raised"}
    /\ pc' = "idle"
    /\ bundle_input' = NoBundle
    /\ scoring_profile' = "v1_balanced"
    /\ top_k' = NoTopK
    /\ portfolios' = <<>>
    /\ bundles' = <<>>
    /\ valid_bundles' = <<>>
    /\ rejected_bundles' = <<>>
    /\ scored_items' = <<>>
    /\ report' = <<>>
    /\ raised' = raised
    /\ sim_calls' = 0
    /\ UNCHANGED <<caller, engine, agent, cli>>

\* The call is over: its locals and its result are gone, the next call can start.
Done ==
    /\ pc \in {"returned", "raised"}
    /\ pc' = "idle"
    /\ bundle_input' = NoBundle
    /\ scoring_profile' = "v1_balanced"
    /\ top_k' = NoTopK
    /\ portfolios' = <<>>
    /\ bundles' = <<>>
    /\ valid_bundles' = <<>>
    /\ rejected_bundles' = <<>>
    /\ scored_items' = <<>>
    /\ report' = <<>>
    /\ raised' = "none"
    /\ sim_calls' = 0
    /\ UNCHANGED <<caller, engine, agent, cli>>

\* A caller passes any bundle, profile and top_k.
CallAny ==
    /\ pc = "idle"
    /\ \E b \in BundleInputs, p \in Profiles, k \in TopKs : Call(b, p, k)

Next ==
    \/ CallAny
    \/ CheckArguments
    \/ Extract
    \/ Simulate
    \/ Validate
    \/ Score
    \/ Rank
    \/ Done

Spec == Init /\ [][Next]_vars

-----------------------------------------------------------------------------
\* One SimulationEngine object and the run calls made on it (simulation.py).

\* The number of audit entries an engine is followed for.
MaxRuns == 3

ranking ==
    <<pc, bundle_input, scoring_profile, top_k, portfolios, bundles, valid_bundles,
      rejected_bundles, scored_items, report, raised, sim_calls, earlier>>

Positive(entry) == entry.weight > 0

\* The portfolio holding e, b and c percent of the three classes, a class of
\* weight 0 being absent.
Alloc(e, b, c) ==
    Portfolio("Alloc",
              SelectSeq(<<Entry(Equities, e), Entry(Bonds, b), Entry(Cash, c)>>, Positive))

\* Every allocation over the three classes with integer weights summing to 100.
Allocations ==
    {Alloc(w[1], w[2], 100 - w[1] - w[2]) :
        w \in {v \in (0..100) \X (0..100) : v[1] + v[2] <= 100}}

\* The portfolios an engine is first run on, and those of its later runs
\* (besides the portfolios it has run before).
\* Two entries of one class, and an entry of no class, in allocations that
\* sum to 100.
TwoEquities == Portfolio("TwoEquities", <<Entry(Equities, 60), Entry(Equities, 40)>>)
WithRealEstate ==
    Portfolio("WithRealEstate", <<Entry(Equities, 80), Entry("Real estate", 20)>>)

FirstPortfolios ==
    Allocations
    \cup {Growth, Stability, Balanced, Sum80, NoAllocation, TwoEquities, WithRealEstate}
LaterPortfolios == {Growth, Stability, NoAllocation}

RunInputs ==
    IF audit_trail = <<>> THEN FirstPortfolios
    ELSE LaterPortfolios
         \cup {audit_trail[i].details.input_portfolio : i \in 1..Len(audit_trail)}

\* self.audit_trail.append(audit_entry)
audit_operation(trail, operation_type, details) ==
    Append(trail, [type |-> operation_type, details |-> details])

\* Run on an engine that keeps the class weights of its last run as the
\* start of the next.
RunKeepingWeights ==
    /\ Len(audit_trail) < MaxRuns
    /\ \E portfolio \in RunInputs :
          LET kept ==
                  IF audit_trail = <<>> THEN <<>>
                  ELSE audit_trail[Len(audit_trail)].details.input_portfolio.allocation
              simulation_result ==
                  IF portfolio.has_allocation
                  THEN run([portfolio EXCEPT !.allocation = kept \o @])
                  ELSE run(portfolio)
          IN  /\ run_result' = <<simulation_result>>
              /\ audit_trail' =
                     IF simulation_result.raised # "none" THEN audit_trail
                     ELSE audit_operation(audit_trail, "simulation_run",
                              [input_portfolio |-> portfolio,
                               output |-> simulation_result])
    /\ UNCHANGED <<ranking, agent, cli>>

\* engine.run(portfolio), simulation.py:106-188
Run ==
    /\ Len(audit_trail) < MaxRuns
    /\ \E portfolio \in RunInputs :
          LET simulation_result == run(portfolio)
          IN  /\ run_result' = <<simulation_result>>
              /\ audit_trail' =
                     IF simulation_result.raised # "none" THEN audit_trail
                     ELSE audit_operation(audit_trail, "simulation_run",
                              [input_portfolio |-> portfolio,
                               output |-> simulation_result])
    /\ UNCHANGED <<ranking, agent, cli>>

\* engine = SimulationEngine(), simulation.py:27-36
NewEngine ==
    /\ audit_trail # <<>> \/ run_result # <<>>
    /\ audit_trail' = <<>>
    /\ run_result' = <<>>
    /\ UNCHANGED <<ranking, agent, cli>>

EngineNext ==
    \/ Run
    \/ NewEngine

EngineSpec == Init /\ [][EngineNext]_vars

-----------------------------------------------------------------------------
\* A caller that keeps the result of one call and makes the same call again
\* after other calls.

TwiceItems == {Item(IdA, Growth), Item(IdAB, Sum80), Item(IdB, NoAllocation)}

TwiceBundles ==
    {NoBundle}
    \cup {BundleDict("v0.1", "list", items) :
              items \in UNION {[1..n -> TwiceItems] : n \in 0..MaxItems}}

TwiceTopKs == {NoTopK, <<1>>}

CallTwice ==
    /\ pc = "idle"
    /\ \E b \in TwiceBundles, p \in Profiles, k \in TwiceTopKs : Call(b, p, k)

\* The caller keeps what the call that just ended raised or returned.
Remember ==
    /\ pc \in {"returned", "raised"}
    /\ earlier = <<>>
    /\ earlier' = <<EndedCall(bundle_input, scoring_profile, top_k, raised, report)>>
    /\ UNCHANGED <<pc, arguments, locals, report, raised, engine,
                   agent, cli>>

TwiceNext ==
    \/ CallTwice
    \/ CheckArguments
    \/ Extract
    \/ Simulate
    \/ Validate
    \/ Score
    \/ Rank
    \/ Remember
    \/ Done

SpecTwice == Init /\ [][TwiceNext]_vars

-----------------------------------------------------------------------------
\* ControlledAgent.plan (agent.py) behind the checks of MCPEnforcer (mcp.py).

\* str.lower() on the code points of an ASCII text.
Lower(text) ==
    [i \in 1..Len(text) |-> IF text[i] >= 65 /\ text[i] <= 90 THEN text[i] + 32 ELSE text[i]]

\* Python's "pattern in text".
Contains(pattern, text) ==
    \E i \in 0..(Len(text) - Len(pattern)) :
        SubSeq(text, i + 1, i + Len(pattern)) = pattern

\* mcp.py:198-202
forbidden_input_patterns ==
    <<<<98, 117, 121>>,    \* "buy"
      <<115, 101, 108, 108>>,    \* "sell"
      <<105, 110, 118, 101, 115, 116>>,    \* "invest"
      <<114, 101, 99, 111, 109, 109, 101, 110, 100>>,    \* "recommend"
      <<103, 117, 97, 114, 97, 110, 116, 101, 101>>,    \* "guarantee"
      <<115, 104, 111, 117, 108, 100>>,    \* "should"
      <<109, 117, 115, 116>>,    \* "must"
      <<119, 105, 108, 108, 32, 112, 114, 111, 102, 105, 116>>,    \* "will profit"
      <<103, 117, 97, 114, 97, 110, 116, 101, 101, 100, 32, 114, 101, 116, 117, 114, 110, 115>>,    \* "guaranteed returns"
      <<97, 103, 103, 114, 101, 115, 115, 105, 118, 101, 32, 105, 110, 118, 101, 115, 116, 109, 101, 110, 116>>,    \* "aggressive investment"
      <<104, 105, 103, 104, 32, 114, 105, 115, 107, 32, 104, 105, 103, 104, 32, 114, 101, 119, 97, 114, 100>>>>    \* "high risk high reward"

\* pre_check that does not lower the text.
pre_check_case_sensitive(text) ==
    IF \E i \in 1..Len(forbidden_input_patterns) :
           Contains(forbidden_input_patterns[i], text)
    THEN "MCPViolation"
    ELSE "ok"

\* mcp.py:211-230
pre_check(text) ==
    LET text_lower == Lower(text)
    IN  IF \E i \in 1..Len(forbidden_input_patterns) :
               Contains(forbidden_input_patterns[i], text_lower)
        THEN "MCPViolation"
        ELSE "ok"

\* The keywords of _build_portfolio.
KwGrowth == <<103, 114, 111, 119, 116, 104>>
KwAggressive == <<97, 103, 103, 114, 101, 115, 115, 105, 118, 101>>
KwStability == <<115, 116, 97, 98, 105, 108, 105, 116, 121>>
KwConservative == <<99, 111, 110, 115, 101, 114, 118, 97, 116, 105, 118, 101>>
KwSafe == <<115, 97, 102, 101>>
KwBalanced == <<98, 97, 108, 97, 110, 99, 101, 100>>
KwModerate == <<109, 111, 100, 101, 114, 97, 116, 101>>

PortfolioSpec(portfolio_name, allocation, rationale) ==
    [present |-> TRUE, portfolio_name |-> portfolio_name, has_allocation |-> TRUE,
     allocation |-> allocation, rationale |-> rationale]

\* _build_portfolio whose growth rule leaves the cash entry out.
build_portfolio_without_cash(text) ==
    LET desc_lower == Lower(text)
    IN  IF Contains(KwGrowth, desc_lower) \/ Contains(KwAggressive, desc_lower)
        THEN PortfolioSpec("Growth Simulation Portfolio",
                 <<Entry(Equities, 70), Entry(Bonds, 25)>>,
                 "This simulation portfolio emphasizes equity exposure while maintaining conservative allocations to bonds and cash for stability.")
        ELSE PortfolioSpec("Stability Simulation Portfolio",
                 <<Entry(Bonds, 70), Entry(Cash, 30)>>,
                 "This simulation portfolio prioritizes stability through government bonds and cash equivalents, suitable for conservative risk preferences.")

\* agent.py:97-168
build_portfolio(text) ==
    LET desc_lower == Lower(text)
    IN  IF Contains(KwGrowth, desc_lower) \/ Contains(KwAggressive, desc_lower)
        THEN PortfolioSpec("Growth Simulation Portfolio",
                 <<Entry(Equities, 70), Entry(Bonds, 25), Entry(Cash, 5)>>,
                 "This simulation portfolio emphasizes equity exposure while maintaining conservative allocations to bonds and cash for stability.")
        ELSE IF \/ Contains(KwStability, desc_lower)
                \/ Contains(KwConservative, desc_lower)
                \/ Contains(KwSafe, desc_lower)
        THEN PortfolioSpec("Stability Simulation Portfolio",
                 <<Entry(Bonds, 70), Entry(Cash, 30)>>,
                 "This simulation portfolio prioritizes stability through government bonds and cash equivalents, suitable for conservative risk preferences.")
        ELSE IF Contains(KwBalanced, desc_lower) \/ Contains(KwModerate, desc_lower)
        THEN PortfolioSpec("Balanced Simulation Portfolio",
                 <<Entry(Equities, 50), Entry(Bonds, 40), Entry(Cash, 10)>>,
                 "This simulation portfolio provides balance across equities, bonds, and cash, offering both growth potential and stability.")
        ELSE PortfolioSpec("Balanced Simulation Portfolio",
                 <<Entry(Equities, 50), Entry(Bonds, 40), Entry(Cash, 10)>>,
                 "This simulation portfolio provides a balanced approach suitable for general portfolio construction education and research.")

\* agent.py:170-184
log_decision(log, decision_type, details) ==
    Append(log, [type |-> decision_type, details |-> details, timestamp |-> "None"])

\* The descriptions a plan is asked for: up to MaxWords of these words and
\* phrases, joined by spaces.
MaxWords == 2

Words ==
    {<<103, 114, 111, 119, 116, 104>>,    \* "growth"
     <<65, 103, 103, 114, 101, 115, 115, 105, 118, 101>>,    \* "Aggressive"
     <<115, 116, 97, 98, 105, 108, 105, 116, 121>>,    \* "stability"
     <<99, 111, 110, 115, 101, 114, 118, 97, 116, 105, 118, 101>>,    \* "conservative"
     <<115, 97, 102, 101>>,    \* "safe"
     <<98, 97, 108, 97, 110, 99, 101, 100>>,    \* "balanced"
     <<109, 111, 100, 101, 114, 97, 116, 101>>,    \* "moderate"
     <<112, 111, 114, 116, 102, 111, 108, 105, 111>>,    \* "portfolio"
     <<66, 85, 89>>,    \* "BUY"
     <<115, 101, 108, 108>>,    \* "sell"
     <<73, 110, 118, 101, 115, 116>>,    \* "Invest"
     <<114, 101, 99, 111, 109, 109, 101, 110, 100>>,    \* "recommend"
     <<103, 117, 97, 114, 97, 110, 116, 101, 101>>,    \* "guarantee"
     <<115, 104, 111, 117, 108, 100>>,    \* "should"
     <<109, 117, 115, 116, 97, 114, 100>>,    \* "mustard"
     <<119, 105, 108, 108>>,    \* "will"
     <<112, 114, 111, 102, 105, 116>>,    \* "profit"
     <<104, 105, 103, 104, 32, 114, 105, 115, 107>>,    \* "high risk"
     <<104, 105, 103, 104, 32, 114, 101, 119, 97, 114, 100>>}    \* "high reward"

RECURSIVE Join(_)
Join(ws) ==
    IF ws = <<>> THEN <<>>
    ELSE IF Len(ws) = 1 THEN ws[1]
    ELSE ws[1] \o <<32>> \o Join(Tail(ws))

Descriptions == {Join(ws) : ws \in UNION {[1..n -> Words] : n \in 0..MaxWords}}

\* The descriptions of the plans after an agent's first: "growth", "safe", "BUY", "mustard".
LaterDescriptions == {<<103, 114, 111, 119, 116, 104>>, <<115, 97, 102, 101>>, <<66, 85, 89>>, <<109, 117, 115, 116, 97, 114, 100>>}

\* The number of decisions an agent's audit_log is followed for.
MaxPlans == 2

\* agent.plan(description)
Plan ==
    /\ plan_pc \in {"idle", "returned", "raised"}
    /\ Len(audit_log) < MaxPlans
    /\ \E text \in (IF plan_pc = "idle" THEN Descriptions ELSE LaterDescriptions) :
          description' = text
    /\ plan_pc' = "pre_check"
    /\ plan_spec' = <<>>
    /\ plan_returned' = <<>>
    /\ plan_raised' = "none"
    /\ log_before' = audit_log
    /\ UNCHANGED <<audit_log, ranking, engine, cli>>

\* agent.py:80
PreCheck ==
    /\ plan_pc = "pre_check"
    /\ IF pre_check(description) = "ok"
       THEN plan_pc' = "build" /\ plan_raised' = plan_raised
       ELSE plan_pc' = "raised" /\ plan_raised' = "MCPViolation"
    /\ UNCHANGED <<description, plan_spec, plan_returned, audit_log, log_before>>
    /\ UNCHANGED <<ranking, engine, cli>>

\* agent.py:83
BuildPortfolio ==
    /\ plan_pc = "build"
    /\ plan_spec' = <<build_portfolio(description)>>
    /\ plan_pc' = "post_check"
    /\ UNCHANGED <<description, plan_returned, plan_raised, audit_log, log_before>>
    /\ UNCHANGED <<ranking, engine, cli>>

\* agent.py:87
PostCheck ==
    /\ plan_pc = "post_check"
    /\ IF post_check(plan_spec[1]) = "ok"
       THEN plan_pc' = "log" /\ plan_raised' = plan_raised
       ELSE plan_pc' = "raised" /\ plan_raised' = "MCPViolation"
    /\ UNCHANGED <<description, plan_spec, plan_returned, audit_log, log_before>>
    /\ UNCHANGED <<ranking, engine, cli>>

\* agent.py:90-93
LogDecision ==
    /\ plan_pc = "log"
    /\ audit_log' =
           log_decision(audit_log, "portfolio_planning",
               [input |-> description, output |-> plan_spec[1]])
    /\ plan_pc' = "return"
    /\ UNCHANGED <<description, plan_spec, plan_returned, plan_raised, log_before>>
    /\ UNCHANGED <<ranking, engine, cli>>

\* agent.py:95
Return ==
    /\ plan_pc = "return"
    /\ plan_returned' = plan_spec
    /\ plan_pc' = "returned"
    /\ UNCHANGED <<description, plan_spec, plan_raised, audit_log, log_before>>
    /\ UNCHANGED <<ranking, engine, cli>>

\* agent = ControlledAgent(), agent.py:42-52
NewAgent ==
    /\ plan_pc \in {"returned", "raised"}
    /\ audit_log # <<>>
    /\ plan_pc' = "idle"
    /\ description' = <<>>
    /\ plan_spec' = <<>>
    /\ plan_returned' = <<>>
    /\ plan_raised' = "none"
    /\ audit_log' = <<>>
    /\ log_before' = <<>>
    /\ UNCHANGED <<ranking, engine, cli>>

PlanNext ==
    \/ Plan
    \/ PreCheck
    \/ BuildPortfolio
    \/ PostCheck
    \/ LogDecision
    \/ Return
    \/ NewAgent

PlanSpec == Init /\ [][PlanNext]_vars

-----------------------------------------------------------------------------
\* The command line (cli.py): the validate command, and the bundle the rank
\* command prepares from its input.

\* What a command finds at its input path: no file (open raises
\* FileNotFoundError), a file that is no JSON (json.load raises
\* JSONDecodeError), or a JSON value.
MissingFile == [file |-> "missing"]
NotJson == [file |-> "notjson"]
JsonFile(data) == [file |-> "json", data |-> data]

\* portfolio_validator.validate(portfolio_data) on any JSON value: a number
\* has no "in" (TypeError), a dictionary of another shape lacks the required
\* fields.
validate_data(portfolio_data) ==
    IF "kind" \in DOMAIN portfolio_data
    THEN IF portfolio_data.kind = "nondict" THEN "TypeError" ELSE "ValueError"
    ELSE validate(portfolio_data)

\* cli.py:178-195
cmd_validate(file) ==
    IF file.file = "missing" THEN [raised |-> "none", code |-> 1]
    ELSE IF file.file = "notjson" THEN [raised |-> "none", code |-> 1]
    ELSE LET outcome == validate_data(file.data)
         IN  IF outcome = "ok" THEN [raised |-> "none", code |-> 0]
             ELSE IF outcome = "ValueError" THEN [raised |-> "none", code |-> 1]
             ELSE [raised |-> outcome, code |-> 0]

\* main running the validate command, cli.py:62-77
main_validate(file) ==
    LET command == cmd_validate(file)
    IN  IF command.raised # "none" THEN 1 ELSE command.code

\* "portfolio_1"
PortfolioOne == <<112, 111, 114, 116, 102, 111, 108, 105, 111, 95, 49>>

\* _prepare_rank_bundle that takes any dictionary with version "v0.1" for a
\* rank bundle.
prepare_rank_bundle_by_version(data) ==
    IF "kind" \in DOMAIN data /\ data.kind = "dict" /\ data.version = "v0.1"
    THEN data
    ELSE BundleDict("v0.1", "list", <<Item(PortfolioOne, data)>>)

\* cli.py:149-175
prepare_rank_bundle(data) ==
    IF /\ "kind" \in DOMAIN data
       /\ data.kind = "dict"
       /\ data.version = "v0.1"
       /\ data.items_kind # "missing"
    THEN data
    ELSE BundleDict("v0.1", "list", <<Item(PortfolioOne, data)>>)

\* The files given to validate: two-entry portfolios of every pair of integer
\* weights from -1 to 101, portfolios with float weights whose total lies
\* within a few ten-thousandths of 100, and malformed inputs.
Weights == (0 - 1)..101
Fractions == {0, 5, 9, 10, 11, 9989, 9990, 9991, 9995}

ValidatePortfolios ==
    {Portfolio("Weighted", <<Entry(Equities, e), Entry(Bonds, b)>>) :
        e \in Weights, b \in Weights}
    \cup {Portfolio("Float", <<Entry(Equities, 50), FloatEntry(Bonds, w, f)>>) :
             w \in {49, 50}, f \in Fractions}
    \cup {Portfolio("Thirds", <<FloatEntry(Equities, 33, 3335),
                                FloatEntry(Bonds, 33, 3335),
                                FloatEntry(Cash, 33, 3335)>>),
          Portfolio("", <<Entry(Equities, 100)>>),
          Portfolio("Empty", <<>>),
          Growth, Sum80, NoAllocation}

ValidateFiles ==
    {MissingFile, NotJson, JsonFile(NonDictBundle),
     JsonFile(BundleDict("v0.1", "list", <<Item(IdA, Growth)>>))}
    \cup {JsonFile(portfolio) : portfolio \in ValidatePortfolios}

\* The JSON values given to rank: rank bundles, dictionaries that miss the
\* version or the items of one, single portfolios and other values.
RankInputs ==
    {NoBundle, NonDictBundle, Growth, Sum80, NoAllocation}
    \cup {BundleDict(version, items_kind, items) :
             version \in {"v0.1", "v0.2", ""},
             items_kind \in {"list", "notlist", "missing"},
             items \in {<<>>, <<Item(IdA, Growth)>>,
                        <<Item(IdA, Growth), Item(IdB, Sum80)>>}}

\* foliorank validate --in file
CmdValidate ==
    /\ cli_pc = "idle"
    /\ \E file \in ValidateFiles :
          /\ input_file' = file
          /\ exit_code' = <<main_validate(file)>>
    /\ cli_pc' = "validate"
    /\ UNCHANGED <<bundle_prepared, ranking, engine, agent>>

\* bundle_input = _prepare_rank_bundle(input_data), cli.py:130-133
PrepareRankBundle ==
    /\ cli_pc = "idle"
    /\ \E data \in RankInputs :
          /\ input_file' = JsonFile(data)
          /\ bundle_prepared' = <<prepare_rank_bundle(data)>>
    /\ cli_pc' = "rank"
    /\ UNCHANGED <<exit_code, ranking, engine, agent>>

\* The next run of the command line starts afresh.
NewProcess ==
    /\ cli_pc # "idle"
    /\ cli_pc' = "idle"
    /\ input_file' = [file |-> "none"]
    /\ exit_code' = <<>>
    /\ bundle_prepared' = <<>>
    /\ UNCHANGED <<ranking, engine, agent>>

CliNext ==
    \/ CmdValidate
    \/ PrepareRankBundle
    \/ NewProcess

CliSpec == Init /\ [][CliNext]_vars

TypeOK ==
    /\ pc \in {"idle", "entry", "extract", "simulate", "validate", "score", "rank",
               "returned", "raised"}
    /\ (pc = "returned") = (report # <<>>)
    /\ (pc = "raised") = (raised # "none")

\* The statements of a call compute what rank_bundles computes.
StepsAgree ==
    pc \in {"returned", "raised"} =>
        /\ rank_bundles(bundle_input, scoring_profile, top_k).raised = raised
        /\ rank_bundles(bundle_input, scoring_profile, top_k).report = report

-----------------------------------------------------------------------------
\* Properties of the reports.

Returned == pc = "returned"
Ended == pc \in {"returned", "raised"}
Ranked == report[1].ranked_items
Rejected == report[1].rejected_candidates
InputItems == bundle_input.items

Hashes(items) == [i \in 1..Len(items) |-> items[i].audit_hash]
HashSet(items) == {items[i].audit_hash : i \in 1..Len(items)}
Drawdown(item) == item.score_breakdown.drawdown_score.normalized

\* A portfolio that passes the structural and safety rules.
IsValidSpec(spec) == post_check(spec) = "ok" /\ validate(spec) = "ok"

DistinctIds(items) ==
    \A i, j \in 1..Len(items) : items[i].id = items[j].id => i = j

\* The position of the first item with this audit_hash in the input.
InputPosition(hash) ==
    CHOOSE i \in 1..Len(InputItems) :
        /\ AuditHash(InputItems[i].id) = hash
        /\ \A j \in 1..(i - 1) : AuditHash(InputItems[j].id) # hash

\* x's key (-total_score, -drawdown normalized, audit_hash) is less than or
\* equal to y's.
KeyLeq(x, y) ==
    \/ x.total_score > y.total_score
    \/ /\ x.total_score = y.total_score
       /\ \/ FLess(Drawdown(y), Drawdown(x))
          \/ /\ FEq(Drawdown(x), Drawdown(y))
             /\ ~StrLess(y.audit_hash, x.audit_hash)

\* C1: in every report returned by rank_bundles, ranked_items is sorted by
\* (total_score descending, drawdown normalized descending, audit_hash
\* ascending): each ranked item's key is <= the key of the item after it.
C1_RankedItemsSorted ==
    Returned => \A i \in 1..(Len(Ranked) - 1) : KeyLeq(Ranked[i], Ranked[i + 1])

\* A report whose ranking differs from the order the candidates came in.
C1_Witness ==
    /\ Returned
    /\ top_k = NoTopK
    /\ Len(Ranked) >= 2
    /\ Hashes(Ranked) # Hashes(valid_bundles)

Reorderings(n) ==
    {f \in [1..n -> 1..n] : \A i, j \in 1..n : f[i] = f[j] => i = j}

Permuted(b, f) == [b EXCEPT !.items = [i \in 1..Len(b.items) |-> b.items[f[i]]]]

\* C2: ranking does not depend on the input order: when the items of the
\* bundle have pairwise distinct ids, the call on every permutation of the
\* items returns a report with the same audit_hash at each rank.
C2_OrderIndependent ==
    (Returned /\ DistinctIds(InputItems)) =>
        \A f \in Reorderings(Len(InputItems)) :
            LET other == rank_bundles(Permuted(bundle_input, f), scoring_profile, top_k)
            IN  /\ other.raised = "none"
                /\ Hashes(other.report[1].ranked_items) = Hashes(Ranked)

\* Two candidates with the same total_score and drawdown, ranked by
\* ascending audit_hash against their order in the input.
C2_Witness ==
    /\ Returned
    /\ DistinctIds(InputItems)
    /\ \E i \in 1..(Len(Ranked) - 1) :
          /\ Ranked[i].total_score = Ranked[i + 1].total_score
          /\ FEq(Drawdown(Ranked[i]), Drawdown(Ranked[i + 1]))
          /\ InputPosition(Ranked[i].audit_hash) > InputPosition(Ranked[i + 1].audit_hash)

\* The bundle-level shape check of the call passes.
ShapeOK ==
    /\ bundle_input.kind = "dict"
    /\ scoring_profile = "v1_balanced"
    /\ bundle_input.version = "v0.1"
    /\ bundle_input.items_kind = "list"
    /\ InputItems # <<>>
    /\ \A i \in 1..Len(InputItems) :
          /\ InputItems[i].isdict
          /\ InputItems[i].id # <<>>
          /\ InputItems[i].portfolio.present

\* The candidates of the bundle: one per id, with the id's last portfolio.
Candidates == validate_and_extract_bundle(bundle_input).portfolios

HasValidCandidate ==
    \E i \in 1..Len(Candidates) : IsValidSpec(Candidates[i].spec)

\* C3: a single bad candidate never aborts the batch: a call on a bundle
\* that passes the shape check and holds a valid candidate returns a report,
\* with one rejection record for each candidate that is not valid, and
\* raises nothing.
C3_BadCandidateNeverAborts ==
    (Ended /\ ShapeOK /\ HasValidCandidate) =>
        /\ Returned
        /\ raised = "none"
        /\ Len(Rejected) =
               Cardinality({i \in 1..Len(Candidates) : ~IsValidSpec(Candidates[i].spec)})

\* C4: in every returned report the rank values of ranked_items are 1..N in
\* list order, also when scores tie.
C4_RanksContiguous ==
    Returned => \A i \in 1..Len(Ranked) : Ranked[i].rank = i

\* A report with two ranked items of equal total_score.
C4_Witness ==
    /\ Returned
    /\ \E i \in 1..(Len(Ranked) - 1) : Ranked[i].total_score = Ranked[i + 1].total_score

FullRanking == rank_bundles(bundle_input, scoring_profile, NoTopK).report[1].ranked_items

\* C5: with top_k = k >= 1, ranked_items is the first min(k, N) entries of
\* the ranking the call returns without top_k, rank fields included.
C5_TopKIsPrefixOfFullRanking ==
    (Returned /\ top_k # NoTopK /\ top_k[1] >= 1) =>
        Ranked = SubSeq(FullRanking, 1, Min(top_k[1], Len(FullRanking)))

\* A report cut by top_k: fewer ranked items than valid candidates.
C5_Witness ==
    /\ Returned
    /\ top_k # NoTopK
    /\ top_k[1] >= 1
    /\ Len(Ranked) = top_k[1]
    /\ Len(Ranked) < report[1].valid_candidates

\* C6: the call raises RankingViolation and returns no report when the
\* bundle is empty or absent, the profile is not "v1_balanced", the version
\* is not "v0.1", items is missing, no sequence or empty, or an item lacks a
\* truthy id or portfolio; a bundle with none of these defects and a valid
\* candidate yields a report.
C6_ShapeErrorsAndOnlyThoseRaise ==
    Ended =>
        /\ ~ShapeOK => (raised = "RankingViolation" /\ report = <<>>)
        /\ (ShapeOK /\ HasValidCandidate) => Returned

\* Every candidate of the call was simulated and none passes validation.
AllRejected ==
    /\ bundles # <<>>
    /\ Len(bundles) = Len(portfolios)
    /\ \A i \in 1..Len(bundles) : ~IsValidSpec(bundles[i].portfolio_spec)

\* C7: when every candidate is rejected by validation the call raises
\* RankingViolation and returns no report; every returned report has
\* valid_candidates >= 1.
C7_NoReportOfRejectionsOnly ==
    /\ Returned => report[1].valid_candidates >= 1
    /\ (Ended /\ AllRejected) => (raised = "RankingViolation" /\ report = <<>>)

\* A call that ended with every candidate rejected.
C7_Witness ==
    /\ pc = "raised"
    /\ valid_bundles = <<>>
    /\ rejected_bundles # <<>>
    /\ Len(rejected_bundles) = Len(bundles)

\* The 1-based positions in bundles of the rejected candidates.
RejectedPositions ==
    {rejected_bundles[j].bundle_index + 1 : j \in 1..Len(rejected_bundles)}

\* The elements of seq at the positions >= i that are not in skip, in order.
RECURSIVE Without(_, _, _)
Without(seq, skip, i) ==
    IF i > Len(seq) THEN <<>>
    ELSE IF i \in skip THEN Without(seq, skip, i + 1)
    ELSE <<seq[i]>> \o Without(seq, skip, i + 1)

\* C8: the accepted and the rejected candidates partition the simulated
\* ones, each list in input order: the rejection records name distinct
\* positions in ascending order and the accepted list is the simulated list
\* without these positions; in a returned report valid_candidates plus the
\* number of rejections is total_candidates, no rejected candidate is among
\* ranked_items, and without top_k there are valid_candidates ranked items.
C8_AcceptedRejectedPartition ==
    /\ pc \in {"score", "rank", "returned"} =>
          /\ Len(valid_bundles) + Len(rejected_bundles) = Len(bundles)
          /\ RejectedPositions \subseteq 1..Len(bundles)
          /\ \A j \in 1..(Len(rejected_bundles) - 1) :
                rejected_bundles[j].bundle_index < rejected_bundles[j + 1].bundle_index
          /\ valid_bundles = Without(bundles, RejectedPositions, 1)
    /\ Returned =>
          /\ Rejected = rejected_bundles
          /\ report[1].valid_candidates + Len(Rejected) = report[1].total_candidates
          /\ \A i \in RejectedPositions : bundles[i].audit_hash \notin HashSet(Ranked)
          /\ top_k = NoTopK => Len(Ranked) = report[1].valid_candidates

\* A report with a rejection between two accepted candidates.
C8_Witness ==
    /\ Returned
    /\ Len(valid_bundles) >= 2
    /\ \E j \in 1..Len(Rejected) :
          /\ Rejected[j].bundle_index > 0
          /\ Rejected[j].bundle_index + 1 < Len(bundles)

\* C9: the report's total_candidates is the number of items of the input
\* bundle.
C9_TotalIsNumberOfItems ==
    Returned => report[1].total_candidates = Len(InputItems)

\* C9, amended: the report's total_candidates is the number of distinct ids
\* among the items of the input bundle.
C9_TotalIsNumberOfDistinctIds ==
    Returned =>
        report[1].total_candidates =
            Cardinality({InputItems[i].id : i \in 1..Len(InputItems)})

\* A report on a bundle in which two items share an id.
C9_Witness ==
    /\ Returned
    /\ ~DistinctIds(InputItems)

\* An item with an allocation whose weights do not sum to 100.
BadSum(item) ==
    /\ item.portfolio.has_allocation
    /\ SumWeights(item.portfolio.allocation) # 100

\* The rejection records that name the item at position i of the input.
RecordsFor(i) == {j \in 1..Len(Rejected) : Rejected[j].bundle_index = i - 1}

\* Each item whose weights do not sum to 100 has exactly one rejection
\* record, which says validation_failed, and is not ranked; the valid items
\* are counted as valid and, when top_k does not cut the ranking, ranked.
RejectsBadSums ==
    /\ \A i \in 1..Len(InputItems) :
          BadSum(InputItems[i]) =>
              /\ Cardinality(RecordsFor(i)) = 1
              /\ \A j \in RecordsFor(i) : Rejected[j].reason_code = "validation_failed"
              /\ AuditHash(InputItems[i].id) \notin HashSet(Ranked)
    /\ report[1].valid_candidates =
           Cardinality({i \in 1..Len(InputItems) : IsValidSpec(InputItems[i].portfolio)})
    /\ top_k = NoTopK =>
           \A i \in 1..Len(InputItems) :
               IsValidSpec(InputItems[i].portfolio) =>
                   AuditHash(InputItems[i].id) \in HashSet(Ranked)

\* C10: in every report each item whose weights do not sum to 100 is
\* rejected exactly once with validation_failed and is not ranked, while the
\* valid items are ranked.
C10_BadSumRejectedOnce ==
    Returned => RejectsBadSums

\* C10, amended: the same for the bundles whose items have pairwise distinct
\* ids; such a report counts every item in total_candidates and has one
\* rejection record for each item that is not valid.
C10_BadSumRejectedOnceDistinctIds ==
    (Returned /\ DistinctIds(InputItems)) =>
        /\ RejectsBadSums
        /\ report[1].total_candidates = Len(InputItems)
        /\ Len(Rejected) =
               Cardinality({i \in 1..Len(InputItems) :
                               ~IsValidSpec(InputItems[i].portfolio)})

\* The report on a bundle of one item with weights summing to 80 and one
\* valid item: two candidates, one valid, one rejection.
C10_Witness ==
    /\ Returned
    /\ Len(InputItems) = 2
    /\ DistinctIds(InputItems)
    /\ \E i \in 1..2 : InputItems[i].portfolio = Sum80
    /\ report[1].total_candidates = 2
    /\ report[1].valid_candidates = 1
    /\ Len(Rejected) = 1
    /\ Rejected[1].reason_code = "validation_failed"

\* The bundle_index values of the report's rejection records, in order.
RejectedIndexes == [j \in 1..Len(Rejected) |-> Rejected[j].bundle_index]

StrictlyAscending(seq) == \A j \in 1..(Len(seq) - 1) : seq[j] < seq[j + 1]

\* The candidates that do not pass validation, in candidate order.
NotValid(candidate) == ~IsValidSpec(candidate.spec)
RejectedCandidatesOf(candidates) == SelectSeq(candidates, NotValid)

\* C11: there is one rejection record per rejected candidate, the record's
\* bundle_index is the 0-based position in the items sequence of the input
\* bundle of an item of that candidate (an item with its id), and the records
\* are in strictly ascending bundle_index order.
C11_IndexIsPositionInItems ==
    Returned =>
        /\ Len(Rejected) = Len(RejectedCandidatesOf(Candidates))
        /\ \A j \in 1..Len(Rejected) :
              /\ RejectedIndexes[j] + 1 \in 1..Len(InputItems)
              /\ InputItems[RejectedIndexes[j] + 1].id =
                     RejectedCandidatesOf(Candidates)[j].id
        /\ StrictlyAscending(RejectedIndexes)

\* C11, amended: bundle_index is the 0-based position of the rejected
\* candidate among the candidates (the distinct ids in the order of their
\* first item), one record for each candidate that is not valid, in strictly
\* ascending order; when the ids of the items are pairwise distinct this is
\* the item's position in the items sequence.
C11_IndexIsPositionAmongCandidates ==
    Returned =>
        /\ {RejectedIndexes[j] + 1 : j \in 1..Len(Rejected)} =
               {i \in 1..Len(Candidates) : ~IsValidSpec(Candidates[i].spec)}
        /\ Len(Rejected) =
               Cardinality({i \in 1..Len(Candidates) : ~IsValidSpec(Candidates[i].spec)})
        /\ StrictlyAscending(RejectedIndexes)
        /\ DistinctIds(InputItems) =>
               /\ Len(Candidates) = Len(InputItems)
               /\ \A i \in 1..Len(InputItems) :
                     /\ Candidates[i].id = InputItems[i].id
                     /\ Candidates[i].spec = InputItems[i].portfolio

\* A report with two rejections, of the first and of the third item.
C11_Witness ==
    /\ Returned
    /\ DistinctIds(InputItems)
    /\ RejectedIndexes = <<0, 2>>
    /\ ~IsValidSpec(InputItems[1].portfolio)
    /\ ~IsValidSpec(InputItems[3].portfolio)

\* The call that has ended is the call the caller kept the result of, made
\* again.
SameCallAgain ==
    /\ Ended
    /\ earlier # <<>>
    /\ earlier[1].calls_since >= 1
    /\ earlier[1].bundle_input = bundle_input
    /\ earlier[1].scoring_profile = scoring_profile
    /\ earlier[1].top_k = top_k

-----------------------------------------------------------------------------
\* Properties of the scores.

Zero == [n |-> 0, d |-> 1]
FLeq(x, y) == ~FLess(y, x)

\* The accepted candidate a ranked item was scored from.
BundleOf(item) ==
    CHOOSE i \in 1..Len(valid_bundles) : valid_bundles[i].audit_hash = item.audit_hash

\* The raw value of a cross-candidate metric of an accepted candidate:
\* expected_return, volatility, and 1 / (1 + volatility), in percent.
RawOf(i, metric) ==
    LET expected_return == [n |-> valid_bundles[i].simulation_result.expected_return, d |-> 10]
        volatility == [n |-> valid_bundles[i].simulation_result.volatility, d |-> 10]
    IN  CASE metric = "return_score" -> expected_return
          [] metric = "risk_score" -> volatility
          [] metric = "stability_score" -> FDiv(One, FAdd(One, volatility))

\* lo is the least and hi the greatest raw value of the accepted set.
IsMinOf(lo, metric) ==
    /\ \E i \in 1..Len(valid_bundles) : FEq(RawOf(i, metric), lo)
    /\ \A i \in 1..Len(valid_bundles) : FLeq(lo, RawOf(i, metric))

IsMaxOf(hi, metric) ==
    /\ \E i \in 1..Len(valid_bundles) : FEq(RawOf(i, metric), hi)
    /\ \A i \in 1..Len(valid_bundles) : FLeq(RawOf(i, metric), hi)

AllShare(metric) ==
    \A i, j \in 1..Len(valid_bundles) : FEq(RawOf(i, metric), RawOf(j, metric))

CrossCandidateMetrics == {"return_score", "risk_score", "stability_score"}

\* The normalized value of the metric in the item's breakdown follows the
\* normalization rule.
NormalizedByRule(item, metric) ==
    LET raw == RawOf(BundleOf(item), metric)
        normalized == item.score_breakdown[metric].normalized
    IN  /\ FEq(item.score_breakdown[metric].raw, raw)
        /\ IF AllShare(metric) THEN normalized = Half
           ELSE \E i, j \in 1..Len(valid_bundles) :
                   LET lo == RawOf(i, metric)
                       hi == RawOf(j, metric)
                       position == FDiv(FSub(raw, lo), FSub(hi, lo))
                   IN  /\ IsMinOf(lo, metric)
                       /\ IsMaxOf(hi, metric)
                       /\ IF metric = "risk_score"
                          THEN FEq(normalized, FSub(One, position))
                          ELSE FEq(normalized, position)
                       /\ FLeq(Zero, normalized)
                       /\ FLeq(normalized, One)
                       /\ LET best == IF metric = "risk_score" THEN lo ELSE hi
                              worst == IF metric = "risk_score" THEN hi ELSE lo
                          IN  /\ FEq(raw, best) => FEq(normalized, One)
                              /\ FEq(raw, worst) => FEq(normalized, Zero)

\* C16: for each of return, risk and stability, if all accepted candidates
\* share the raw value every normalized value is exactly 0.5; otherwise
\* normalized is (raw - min)/(max - min), for risk 1 minus that, with min and
\* max over the whole accepted set, it lies in [0, 1], the best candidate has
\* 1 and the worst 0. This holds of every scored item, before and after top_k.
C16_NormalizedByMinMax ==
    /\ pc = "rank" =>
          \A k \in 1..Len(scored_items) : \A metric \in CrossCandidateMetrics :
              NormalizedByRule(scored_items[k], metric)
    /\ Returned =>
          \A k \in 1..Len(Ranked) : \A metric \in CrossCandidateMetrics :
              NormalizedByRule(Ranked[k], metric)

\* A report of three candidates, one with an expected_return strictly
\* between the others', none of them cut by top_k.
C16_Witness ==
    /\ Returned
    /\ Len(Ranked) = 3
    /\ \E k \in 1..3 :
          /\ FLess(Zero, Ranked[k].score_breakdown.return_score.normalized)
          /\ FLess(Ranked[k].score_breakdown.return_score.normalized, One)
          /\ FLess(Zero, Ranked[k].score_breakdown.risk_score.normalized)
          /\ FLess(Ranked[k].score_breakdown.stability_score.normalized, One)

\* The sum of a sequence of fractions as its whole part and the sum of the
\* fractional parts of its terms (the terms are too large to add as they are).
RECURSIVE WholeSum(_)
WholeSum(terms) ==
    IF terms = <<>> THEN 0
    ELSE (Head(terms).n \div Head(terms).d) + WholeSum(Tail(terms))

RECURSIVE PartSum(_)
PartSum(terms) ==
    IF terms = <<>> THEN Zero
    ELSE FAdd(Frac(Head(terms).n % Head(terms).d, Head(terms).d), PartSum(Tail(terms)))

\* total minus the sum of the terms.
Excess(total, terms) == FSub([n |-> total - WholeSum(terms), d |-> 1], PartSum(terms))

\* The terms of 100 * (0.40*return + 0.30*risk + 0.20*drawdown +
\* 0.05*stability + 0.05*completeness) over the normalized values of the
\* breakdown, in hundredths.
WeightedTerms(item) ==
    LET Term(hundredths, metric) ==
            Frac(100 * hundredths * item.score_breakdown[metric].normalized.n,
                 item.score_breakdown[metric].normalized.d)
    IN  <<Term(40, "return_score"), Term(30, "risk_score"), Term(20, "drawdown_score"),
          Term(5, "stability_score"), Term(5, "completeness_score")>>

\* The five weights of the breakdown, in hundredths, sum to 1.0.
WeightsSumToOne(item) ==
    item.score_breakdown.return_score.weight + item.score_breakdown.risk_score.weight
    + item.score_breakdown.drawdown_score.weight
    + item.score_breakdown.stability_score.weight
    + item.score_breakdown.completeness_score.weight = 100

\* total (in hundredths) is the sum of the terms rounded to two decimal
\* places.
RoundedToTwoDecimals(total, terms) ==
    /\ FLeq(Excess(total, terms), Half)
    /\ FLeq(FSub(Zero, Half), Excess(total, terms))

\* C17: for every ranked item total_score is 100 times the weighted sum of
\* the normalized values of its breakdown, the five weights sum to 1.0 and
\* total_score lies in [0, 100].
C17_TotalIsWeightedSum ==
    Returned =>
        \A k \in 1..Len(Ranked) :
            /\ FEq(Excess(Ranked[k].total_score, WeightedTerms(Ranked[k])), Zero)
            /\ WeightsSumToOne(Ranked[k])
            /\ Ranked[k].total_score \in 0..10000

\* C17, amended: total_score is 100 times the weighted sum rounded to two
\* decimal places; the five weights sum to 1.0 and total_score lies in
\* [0, 100].
C17_TotalIsRoundedWeightedSum ==
    Returned =>
        \A k \in 1..Len(Ranked) :
            /\ RoundedToTwoDecimals(Ranked[k].total_score, WeightedTerms(Ranked[k]))
            /\ WeightsSumToOne(Ranked[k])
            /\ Ranked[k].total_score \in 0..10000

\* A ranked item whose weighted sum has more than two decimal places.
C17_Witness ==
    /\ Returned
    /\ \E k \in 1..Len(Ranked) : PartSum(WeightedTerms(Ranked[k])).d # 1

\* Each entry's contribution is weight * normalized.
ContributionsAreProducts(item) ==
    \A metric \in DOMAIN item.score_breakdown :
        LET entry == item.score_breakdown[metric]
        IN  entry.contribution =
                Frac(entry.weight * entry.normalized.n, 100 * entry.normalized.d)

\* The five contributions times 100 * 100: the terms whose sum is compared
\* with total_score in hundredths.
ContributionTerms(item) ==
    LET Scaled(metric) ==
            Frac(10000 * item.score_breakdown[metric].contribution.n,
                 item.score_breakdown[metric].contribution.d)
    IN  <<Scaled("return_score"), Scaled("risk_score"), Scaled("drawdown_score"),
          Scaled("stability_score"), Scaled("completeness_score")>>

\* C18: for every ranked item each breakdown entry has contribution =
\* weight * normalized and the five contributions sum to total_score / 100.
C18_ContributionsSumToTotal ==
    Returned =>
        \A k \in 1..Len(Ranked) :
            /\ ContributionsAreProducts(Ranked[k])
            /\ DOMAIN Ranked[k].score_breakdown =
                   {MetricNames[m] : m \in 1..Len(MetricNames)}
            /\ FEq(Excess(Ranked[k].total_score, ContributionTerms(Ranked[k])), Zero)

\* C18, amended: each breakdown entry has contribution = weight * normalized
\* and 100 times the sum of the five contributions, rounded to two decimal
\* places, is total_score.
C18_ContributionsRoundToTotal ==
    Returned =>
        \A k \in 1..Len(Ranked) :
            /\ ContributionsAreProducts(Ranked[k])
            /\ DOMAIN Ranked[k].score_breakdown =
                   {MetricNames[m] : m \in 1..Len(MetricNames)}
            /\ RoundedToTwoDecimals(Ranked[k].total_score, ContributionTerms(Ranked[k]))

\* A ranked item with a positive return contribution whose contributions
\* do not sum to a value of four decimal places.
C18_Witness ==
    /\ Returned
    /\ \E k \in 1..Len(Ranked) :
          /\ PartSum(ContributionTerms(Ranked[k])).d # 1
          /\ Ranked[k].score_breakdown.return_score.contribution.n # 0

\* A call on a bundle of two valid portfolios with different ids, ranked in
\* full.
TwoValidCandidates ==
    /\ Returned
    /\ Len(InputItems) = 2
    /\ DistinctIds(InputItems)
    /\ Len(valid_bundles) = 2
    /\ top_k = NoTopK \/ top_k[1] >= 2

\* The accepted candidate i has strictly higher expected_return and strictly
\* higher volatility than j.
HigherReturnAndVolatility(i, j) ==
    /\ valid_bundles[i].simulation_result.expected_return
           > valid_bundles[j].simulation_result.expected_return
    /\ valid_bundles[i].simulation_result.volatility
           > valid_bundles[j].simulation_result.volatility

\* C19: in a two-item bundle of valid portfolios where one candidate has
\* strictly higher expected_return and strictly higher volatility than the
\* other, the higher-return candidate gets rank 1 and the other rank 2; so
\* {equities: 70, bonds: 25, cash: 5} ranks above {bonds: 70, cash: 30} in
\* either input order.
C19_HigherReturnRanksFirst ==
    TwoValidCandidates =>
        /\ \A i, j \in 1..2 :
              HigherReturnAndVolatility(i, j) =>
                  /\ Len(Ranked) = 2
                  /\ Ranked[1].audit_hash = valid_bundles[i].audit_hash
                  /\ Ranked[1].rank = 1
                  /\ Ranked[2].audit_hash = valid_bundles[j].audit_hash
                  /\ Ranked[2].rank = 2
        /\ \A i, j \in 1..2 :
              (/\ valid_bundles[i].portfolio_spec.allocation = Growth.allocation
               /\ valid_bundles[j].portfolio_spec.allocation = Stability.allocation) =>
                  /\ HigherReturnAndVolatility(i, j)
                  /\ Ranked[1].portfolio_name = valid_bundles[i].portfolio_spec.portfolio_name

\* The report on the bundle of {bonds: 70, cash: 30} followed by
\* {equities: 70, bonds: 25, cash: 5}.
C19_Witness ==
    /\ TwoValidCandidates
    /\ InputItems[1].portfolio = Stability
    /\ InputItems[2].portfolio = Growth
    /\ Ranked[1].portfolio_name = "Growth"
    /\ Ranked[2].portfolio_name = "Stability"

-----------------------------------------------------------------------------
\* Properties of SimulationEngine.run.

Runs == 1..Len(audit_trail)
InputOf(i) == audit_trail[i].details.input_portfolio
OutputOf(i) == audit_trail[i].details.output

\* The weight an allocation gives to an asset class, 0 for an absent class.
RECURSIVE WeightOf(_, _)
WeightOf(allocation, asset) ==
    IF allocation = <<>> THEN 0
    ELSE (IF Head(allocation).asset = asset THEN Head(allocation).weight ELSE 0)
         + WeightOf(Tail(allocation), asset)

\* An allocation over {equities, bonds, cash}, each class at most once, with
\* integer weights summing to 100.
OverThreeClasses(portfolio) ==
    /\ portfolio.has_allocation
    /\ \A i \in 1..Len(portfolio.allocation) :
          /\ portfolio.allocation[i].asset \in {Equities, Bonds, Cash}
          /\ portfolio.allocation[i].weight \in 0..100
          /\ \A j \in 1..Len(portfolio.allocation) :
                portfolio.allocation[i].asset = portfolio.allocation[j].asset => i = j
    /\ WeightOf(portfolio.allocation, Equities) + WeightOf(portfolio.allocation, Bonds)
           + WeightOf(portfolio.allocation, Cash) = 100

\* 100 times the blend of the three weights with the given rates (in tenths
\* of a percent), that is the unrounded value in thousandths of a percent.
Blend(portfolio, equities_rate, bonds_rate, cash_rate) ==
    WeightOf(portfolio.allocation, Equities) * equities_rate
    + WeightOf(portfolio.allocation, Bonds) * bonds_rate
    + WeightOf(portfolio.allocation, Cash) * cash_rate

\* tenths is a value of one decimal place nearest to thousandths / 1000.
RoundedToOneDecimal(tenths, thousandths) ==
    /\ 100 * tenths - thousandths <= 50
    /\ thousandths - 100 * tenths <= 50

\* C13: for every allocation over {equities, bonds, cash} with integer
\* weights summing to 100, run returns expected_return =
\* (7.0*w_equities + 3.0*w_bonds + 1.0*w_cash)/100 and volatility =
\* (15.0*w_equities + 5.0*w_bonds + 0.5*w_cash)/100, each rounded to one
\* decimal place, with time_horizon "long_term" and simulation_version "v0.1".
C13_RunReturnsRoundedBlend ==
    \A i \in Runs :
        OverThreeClasses(InputOf(i)) =>
            /\ RoundedToOneDecimal(OutputOf(i).expected_return, Blend(InputOf(i), 70, 30, 10))
            /\ RoundedToOneDecimal(OutputOf(i).volatility, Blend(InputOf(i), 150, 50, 5))
            /\ OutputOf(i).time_horizon = "long_term"
            /\ OutputOf(i).simulation_version = "v0.1"

\* A run on an allocation of all three classes whose unrounded volatility
\* lies half way between two values of one decimal place.
C13_Witness ==
    \E i \in Runs :
        /\ OverThreeClasses(InputOf(i))
        /\ Len(InputOf(i).allocation) = 3
        /\ Blend(InputOf(i), 150, 50, 5) % 100 = 50
        /\ Blend(InputOf(i), 70, 30, 10) % 100 \notin {0, 50}

\* The allocation {equities: 70, bonds: 25, cash: 5}.
IsSeventyTwentyFiveFive(portfolio) ==
    /\ OverThreeClasses(portfolio)
    /\ WeightOf(portfolio.allocation, Equities) = 70
    /\ WeightOf(portfolio.allocation, Bonds) = 25
    /\ WeightOf(portfolio.allocation, Cash) = 5

\* C14: for the portfolio {equities: 70, bonds: 25, cash: 5} run yields
\* expected_return = 6.0 and volatility = 11.8.
C14_ScenarioOneSixPointZero ==
    \A i \in Runs :
        IsSeventyTwentyFiveFive(InputOf(i)) =>
            /\ OutputOf(i).expected_return = 60
            /\ OutputOf(i).volatility = 118

\* C14, amended: for the portfolio {equities: 70, bonds: 25, cash: 5} run
\* yields expected_return = 5.7 (the blend is 570/100 = 5.70) and
\* volatility = 11.8 (from 11.775).
C14_ScenarioOneFivePointSeven ==
    \A i \in Runs :
        IsSeventyTwentyFiveFive(InputOf(i)) =>
            /\ Blend(InputOf(i), 70, 30, 10) = 5700
            /\ Blend(InputOf(i), 150, 50, 5) = 11775
            /\ OutputOf(i).expected_return = 57
            /\ OutputOf(i).volatility = 118

\* The engine has run on {equities: 70, bonds: 25, cash: 5}.
C14_Witness ==
    \E i \in Runs : IsSeventyTwentyFiveFive(InputOf(i))

\* A valid allocation: over the three classes, every weight positive.
ValidAllocation(portfolio) ==
    /\ OverThreeClasses(portfolio)
    /\ \A i \in 1..Len(portfolio.allocation) : portfolio.allocation[i].weight > 0

\* The allocations e:b:c and e2:b2:c2 have the same bonds:cash ratio.
SameRatio(b, c, b2, c2) ==
    /\ b + c > 0
    /\ b2 + c2 > 0
    /\ b * c2 = b2 * c

\* P(the result of run on the other allocation, the distance of the equities
\* weights) holds for every allocation with the bonds:cash ratio of the
\* portfolio and a larger equities weight e2. With b2 + c2 = 100 - e2, only
\* b2 = (100 - e2) * b / (b + c) can have the ratio b:c.
ForHigherEquities(portfolio, P(_, _)) ==
    LET e == WeightOf(portfolio.allocation, Equities)
        b == WeightOf(portfolio.allocation, Bonds)
        c == WeightOf(portfolio.allocation, Cash)
    IN  \A e2 \in (e + 1)..100 :
            LET b2 == ((100 - e2) * b) \div (b + c)
                c2 == 100 - e2 - b2
            IN  SameRatio(b, c, b2, c2) => P(run(Alloc(e2, b2, c2)), e2 - e)

\* The first run of the engine was on a valid allocation.
FirstRunValid == Len(audit_trail) = 1 /\ ValidAllocation(InputOf(1))

\* C15: of two valid allocations with the same bonds:cash ratio, the one
\* with the larger equities weight has strictly larger expected_return and
\* strictly larger volatility in the rounded output.
C15_StrictlyIncreasingInEquities ==
    FirstRunValid =>
        LET StrictlyLarger(other, distance) ==
                /\ other.expected_return > OutputOf(1).expected_return
                /\ other.volatility > OutputOf(1).volatility
        IN  ForHigherEquities(InputOf(1), StrictlyLarger)

\* C15, amended: the one with the larger equities weight has strictly
\* larger volatility and an expected_return that is at least as large, and
\* strictly larger when the equities weights differ by 3 or more.
C15_IncreasingInEquities ==
    FirstRunValid =>
        LET Larger(other, distance) ==
                /\ other.volatility > OutputOf(1).volatility
                /\ other.expected_return >= OutputOf(1).expected_return
                /\ distance >= 3 => other.expected_return > OutputOf(1).expected_return
        IN  ForHigherEquities(InputOf(1), Larger)

\* A run on an allocation for which one more percent of equities, at the
\* same bonds:cash ratio, leaves the rounded expected_return as it is.
C15_Witness ==
    /\ FirstRunValid
    /\ LET HigherReturn(other, distance) ==
               other.expected_return > OutputOf(1).expected_return
       IN  ~ForHigherEquities(InputOf(1), HigherReturn)

\* C20: on one engine, two runs on portfolios with the same allocation
\* return the same metrics, whatever the engine ran in between and whatever
\* its audit_trail holds; the last run's result is what run returns on a new
\* engine.
C20_RunIsPure ==
    /\ \A i, j \in Runs :
          InputOf(i).allocation = InputOf(j).allocation => OutputOf(i) = OutputOf(j)
    /\ (run_result # <<>> /\ run_result[1].raised = "none") =>
          /\ audit_trail # <<>>
          /\ run_result[1] = OutputOf(Len(audit_trail))

\* An engine that ran a portfolio, then another allocation, then the first
\* portfolio again.
C20_Witness ==
    /\ Len(audit_trail) = 3
    /\ InputOf(1) = InputOf(3)
    /\ InputOf(2).allocation # InputOf(1).allocation
    /\ OutputOf(2) # OutputOf(1)

-----------------------------------------------------------------------------
\* Properties of the plan call.

\* A forbidden pattern occurs in the text, letters compared without regard
\* to case.
HasForbiddenPattern(text) ==
    \E p \in 1..Len(forbidden_input_patterns) :
        LET pattern == forbidden_input_patterns[p]
        IN  \E offset \in 0..(Len(text) - Len(pattern)) :
                \A j \in 1..Len(pattern) :
                    \/ text[offset + j] = pattern[j]
                    \/ /\ text[offset + j] \in 65..90
                       /\ text[offset + j] + 32 = pattern[j]

PlanDecision ==
    [type |-> "portfolio_planning",
     details |-> [input |-> description, output |-> plan_returned[1]],
     timestamp |-> "None"]

\* C21: plan is gated by the two checks in a fixed order. No portfolio is
\* built before pre_check has passed on the description, none is returned or
\* logged before post_check has passed on the built portfolio, and a call
\* returns its portfolio with exactly one decision appended to audit_log only
\* when both passed. A call whose description holds a forbidden pattern (as a
\* case-insensitive substring) or whose portfolio fails post_check raises
\* MCPViolation, returns nothing and leaves audit_log as it was.
C21_PlanIsGated ==
    /\ plan_pc = "pre_check" => plan_spec = <<>>
    /\ plan_spec # <<>> => ~HasForbiddenPattern(description)
    /\ plan_pc \in {"pre_check", "build", "post_check", "log"} =>
           plan_returned = <<>> /\ audit_log = log_before
    /\ plan_pc \in {"log", "return"} => post_check(plan_spec[1]) = "ok"
    /\ plan_pc = "returned" =>
           /\ plan_returned = plan_spec
           /\ post_check(plan_returned[1]) = "ok"
           /\ audit_log = Append(log_before, PlanDecision)
    /\ plan_pc = "raised" =>
           /\ plan_raised = "MCPViolation"
           /\ plan_returned = <<>>
           /\ audit_log = log_before
           /\ \/ HasForbiddenPattern(description)
              \/ plan_spec # <<>> /\ post_check(plan_spec[1]) # "ok"
    /\ HasForbiddenPattern(description) /\ plan_pc \notin {"idle", "pre_check"} =>
           plan_pc = "raised"

\* A call refused for a pattern written in capitals, on an agent that has
\* logged a decision before.
C21_Witness ==
    /\ plan_pc = "raised"
    /\ audit_log # <<>>
    /\ HasForbiddenPattern(description)
    /\ pre_check_case_sensitive(description) = "ok"

\* C22: every portfolio plan can produce is valid downstream. A call whose
\* description holds no forbidden pattern returns, and the portfolio it built
\* from the keyword rules passes post_check and PortfolioValidator.validate
\* and is simulated without an exception.
C22_PlannedPortfolioIsValid ==
    /\ plan_spec # <<>> =>
           /\ post_check(plan_spec[1]) = "ok"
           /\ validate(plan_spec[1]) = "ok"
           /\ simulate(plan_spec[1]).raised = "none"
    /\ plan_pc \in {"returned", "raised"} /\ ~HasForbiddenPattern(description) =>
           /\ plan_pc = "returned"
           /\ validate(plan_returned[1]) = "ok"
           /\ simulate(plan_returned[1]).raised = "none"

\* A returned growth portfolio that validates and simulates.
C22_Witness ==
    /\ plan_pc = "returned"
    /\ plan_returned[1].portfolio_name = "Growth Simulation Portfolio"
    /\ validate(plan_returned[1]) = "ok"
    /\ simulate(plan_returned[1]).raised = "none"

-----------------------------------------------------------------------------
\* Properties of the command line.

Validated == cli_pc = "validate" /\ input_file.file = "json"

\* The portfolios with an allocation whose entries are read one by one.
IsPortfolio(data) == "kind" \notin DOMAIN data /\ data.has_allocation

\* The sum of the weights and its distance from 100, in ten-thousandths.
RECURSIVE WeightsUpTo(_, _)
WeightsUpTo(allocation, n) ==
    IF n = 0 THEN 0
    ELSE WeightsUpTo(allocation, n - 1) + allocation[n].weight * 10000
         + (IF "fraction" \in DOMAIN allocation[n] THEN allocation[n].fraction ELSE 0)

DistanceFrom100(allocation) == Abs(WeightsUpTo(allocation, Len(allocation)) - 1000000)

Prepared == cli_pc = "rank" /\ bundle_prepared # <<>>

\* A dictionary with version "v0.1" and an items key.
IsCanonicalBundle(data) ==
    /\ "kind" \in DOMAIN data
    /\ data.kind = "dict"
    /\ data.version = "v0.1"
    /\ data.items_kind \in {"list", "notlist"}

-----------------------------------------------------------------------------
\* Properties of the order of work in rank_bundles.

WellFormed(item) == item.isdict /\ item.id # <<>> /\ item.portfolio.present

\* C25: a bundle-level error stops the call before any per-candidate work.
\* When the bundle is empty, the profile unknown, the version wrong, the items
\* empty or an item without id or portfolio, the call raises RankingViolation
\* and no candidate has been simulated or validated by then, wherever in the
\* items the malformed one stands.
C25_BundleErrorsBeforeCandidateWork ==
    Ended /\ ~ShapeOK =>
        /\ raised = "RankingViolation"
        /\ report = <<>>
        /\ sim_calls = 0
        /\ bundles = <<>>
        /\ valid_bundles = <<>>
        /\ rejected_bundles = <<>>

\* Two well-formed items with valid portfolios, then a malformed last item.
C25_Witness ==
    /\ pc = "raised"
    /\ bundle_input.kind = "dict"
    /\ scoring_profile = "v1_balanced"
    /\ bundle_input.version = "v0.1"
    /\ Len(InputItems) = 3
    /\ \A i \in 1..2 : WellFormed(InputItems[i]) /\ IsValidSpec(InputItems[i].portfolio)
    /\ InputItems[1].id # InputItems[2].id
    /\ ~WellFormed(InputItems[3])
    /\ sim_calls = 0

\* The positions of the items that are the first with their id, the n-th of
\* them, and the portfolio of the last item with an id.
FirstPositions ==
    {i \in 1..Len(InputItems) : \A j \in 1..(i - 1) : InputItems[j].id # InputItems[i].id}

NthFirst(n) ==
    CHOOSE i \in FirstPositions : Cardinality({j \in FirstPositions : j < i}) = n - 1

LastPortfolio(id) ==
    LET last == CHOOSE i \in 1..Len(InputItems) :
                    /\ InputItems[i].id = id
                    /\ \A j \in (i + 1)..Len(InputItems) : InputItems[j].id # id
    IN  InputItems[last].portfolio

Simulated == pc \in {"validate", "score", "rank", "returned"}

\* C26: duplicate ids collapse to one candidate without an error. The items
\* of a well-formed bundle are all extracted; one candidate per distinct id
\* is simulated, at the position of the first item with that id and with
\* the portfolio of the last; total_candidates counts the distinct ids, every
\* candidate is either accepted or rejected, and a rejection's bundle_index
\* is the candidate's 0-based position among the distinct ids.
C26_DuplicateIdsCollapse ==
    /\ ShapeOK /\ Ended => sim_calls >= 1
    /\ ShapeOK /\ Simulated =>
           /\ Len(bundles) = Cardinality(FirstPositions)
           /\ sim_calls = Cardinality(FirstPositions)
           /\ \A n \in 1..Len(bundles) :
                 /\ bundles[n].audit_hash = AuditHash(InputItems[NthFirst(n)].id)
                 /\ bundles[n].portfolio_spec = LastPortfolio(InputItems[NthFirst(n)].id)
    /\ Returned =>
           /\ report[1].total_candidates = Cardinality(FirstPositions)
           /\ report[1].valid_candidates + Len(Rejected) = Cardinality(FirstPositions)
           /\ \A j \in 1..Len(Rejected) :
                 /\ Rejected[j].bundle_index + 1 \in 1..Len(bundles)
                 /\ ~IsValidSpec(bundles[Rejected[j].bundle_index + 1].portfolio_spec)

\* Three items of which the first and the last share an id and differ in
\* their portfolio, returned as two candidates, the second one rejected at
\* bundle_index 1.
C26_Witness ==
    /\ Returned
    /\ Len(InputItems) = 3
    /\ InputItems[1].id = InputItems[3].id
    /\ InputItems[1].portfolio # InputItems[3].portfolio
    /\ InputItems[2].id # InputItems[1].id
    /\ report[1].total_candidates = 2
    /\ Len(Rejected) = 1
    /\ Rejected[1].bundle_index = 1

-----------------------------------------------------------------------------
\* Properties of scores across calls with different candidate sets.

\* The call made again on the bundle without its i-th item.
WithoutItem(i) ==
    rank_bundles(BundleDict("v0.1", "list", Without(InputItems, {i}, 1)),
                 scoring_profile, top_k)

ItemWith(items, hash) == CHOOSE k \in 1..Len(items) : items[k].audit_hash = hash

ScoreOf(items, hash) == items[ItemWith(items, hash)].total_score

\* The least and the greatest raw value of a metric over the ranked items.
RawValues(items, metric) == {items[k].score_breakdown[metric].raw : k \in 1..Len(items)}
LeastOf(values) == CHOOSE x \in values : \A y \in values : FLeq(x, y)
GreatestOf(values) == CHOOSE x \in values : \A y \in values : FLeq(y, x)

SameExtremes(items, others) ==
    \A metric \in {"return_score", "risk_score"} :
        /\ FEq(LeastOf(RawValues(items, metric)), LeastOf(RawValues(others, metric)))
        /\ FEq(GreatestOf(RawValues(items, metric)), GreatestOf(RawValues(others, metric)))

\* The i-th item is the only one with its id: without it the call has one
\* candidate less.
RemovesCandidate(i) ==
    \A j \in 1..Len(InputItems) : InputItems[j].id = InputItems[i].id => j = i

\* C27: a call with a different candidate set (one ranked candidate removed,
\* or seen the other way round, added) gives every candidate that both calls
\* rank a different total_score.
C27_EveryCommonScoreChanges ==
    Returned /\ top_k = NoTopK =>
        \A i \in 1..Len(InputItems) :
            (/\ RemovesCandidate(i)
             /\ AuditHash(InputItems[i].id) \in HashSet(Ranked)
             /\ WithoutItem(i).raised = "none") =>
                LET others == WithoutItem(i).report[1].ranked_items
                IN  \A hash \in HashSet(Ranked) \cap HashSet(others) :
                        ScoreOf(Ranked, hash) # ScoreOf(others, hash)

\* C27, amended: a call with a different candidate set can give the common
\* candidates different total_scores, and it gives each of them the same
\* total_score whenever the least and the greatest expected_return and
\* volatility of the accepted candidates are the same in both calls.
C27_ScoresChangeOnlyWithExtremes ==
    Returned /\ top_k = NoTopK =>
        \A i \in 1..Len(InputItems) :
            RemovesCandidate(i) /\ WithoutItem(i).raised = "none" =>
                LET others == WithoutItem(i).report[1].ranked_items
                IN  SameExtremes(Ranked, others) =>
                        \A hash \in HashSet(Ranked) \cap HashSet(others) :
                            ScoreOf(Ranked, hash) = ScoreOf(others, hash)

\* Three ranked candidates: without the one in the middle the other two keep
\* their scores, without another one a remaining candidate's score changes.
C27_Witness ==
    /\ Returned
    /\ top_k = NoTopK
    /\ Len(Ranked) = 3
    /\ \E i \in 1..Len(InputItems) :
          /\ RemovesCandidate(i)
          /\ WithoutItem(i).raised = "none"
          /\ Len(WithoutItem(i).report[1].ranked_items) = 2
          /\ SameExtremes(Ranked, WithoutItem(i).report[1].ranked_items)
    /\ \E i \in 1..Len(InputItems) :
          /\ RemovesCandidate(i)
          /\ WithoutItem(i).raised = "none"
          /\ \E hash \in HashSet(Ranked) \cap HashSet(WithoutItem(i).report[1].ranked_items) :
                ScoreOf(Ranked, hash) # ScoreOf(WithoutItem(i).report[1].ranked_items, hash)

-----------------------------------------------------------------------------
\* Properties of top_k.

WithoutTopK == rank_bundles(bundle_input, scoring_profile, NoTopK)

\* C28: top_k is an upper bound on the report. For every integer top_k, zero
\* and negative ones included, ranked_items has at most max(top_k, 0) entries,
\* while total_candidates, valid_candidates and rejected_candidates are what
\* the call without top_k reports.
C28_TopKBoundsRankedItems ==
    Returned /\ top_k # NoTopK =>
        /\ Len(Ranked) <= Max(top_k[1], 0)
        /\ WithoutTopK.raised = "none"
        /\ report[1].total_candidates = WithoutTopK.report[1].total_candidates
        /\ report[1].valid_candidates = WithoutTopK.report[1].valid_candidates
        /\ Rejected = WithoutTopK.report[1].rejected_candidates

-----------------------------------------------------------------------------
\* Properties of a single accepted candidate.

\* C29: a bundle with exactly one valid candidate always yields the
\* total_score 52.5. Return, risk and stability are degenerate and normalize
\* to 0.5, drawdown is 0.5 and completeness 1.0, whatever the candidate's
\* portfolio and however many other candidates were rejected.
C29_SingleCandidateScores ==
    /\ pc = "rank" /\ Len(valid_bundles) = 1 =>
           /\ Len(scored_items) = 1
           /\ scored_items[1].total_score = 5250
    /\ Returned /\ report[1].valid_candidates = 1 =>
           \A k \in 1..Len(Ranked) :
               /\ Ranked[k].total_score = 5250
               /\ \A metric \in {"return_score", "risk_score", "stability_score",
                                 "drawdown_score"} :
                      Ranked[k].score_breakdown[metric].normalized = Half
               /\ Ranked[k].score_breakdown.completeness_score.normalized = One

\* One ranked candidate out of three, the other two rejected.
C29_Witness ==
    /\ Returned
    /\ report[1].total_candidates = 3
    /\ report[1].valid_candidates = 1
    /\ Len(Rejected) = 2
    /\ Len(Ranked) = 1
    /\ Ranked[1].total_score = 5250

-----------------------------------------------------------------------------
\* Properties of the class weights of a run.

\* C30: the weight run uses for an asset class is the sum of the weights of
\* all entries of that class. For every allocation that passes validation,
\* each entry belongs to exactly one of equities, bonds and cash, and the
\* returned expected_return and volatility are the blend of the three sums
\* (two entries of one class counting together), rounded to one decimal place.
C30_ClassWeightsAreSums ==
    \A i \in Runs :
        validate(InputOf(i)) = "ok" =>
            /\ \A k \in 1..Len(InputOf(i).allocation) :
                  InputOf(i).allocation[k].asset \in {Equities, Bonds, Cash}
            /\ WeightOf(InputOf(i).allocation, Equities)
                   + WeightOf(InputOf(i).allocation, Bonds)
                   + WeightOf(InputOf(i).allocation, Cash)
                   = SumWeights(InputOf(i).allocation)
            /\ RoundedToOneDecimal(OutputOf(i).expected_return, Blend(InputOf(i), 70, 30, 10))
            /\ RoundedToOneDecimal(OutputOf(i).volatility, Blend(InputOf(i), 150, 50, 5))

====
